---- MODULE Spec2Model ----
(***************************************************************************)
(* Valuation and decision engine of titlesplit-generator.                  *)
(*                                                                         *)
(* The engine is a set of pure functions.  The specifications SpecRec,     *)
(* SpecRepeat, SpecVal and SpecScore draw the arguments of one call from   *)
(* bounded sets in their initial predicate (pc = "call") and have one      *)
(* action per function that applies the function to the pending arguments  *)
(* and stores what it returned (pc = "done").  SpecScraper and             *)
(* SpecEnrichment, at the end of the module, are the scraper endpoint and  *)
(* the enrichment task with their database rows; their actions are the     *)
(* steps of the coroutines between two awaits.                             *)
(*                                                                         *)
(* Conventions                                                             *)
(*   Optional[T]     None is << >>, a present value v is <<v>>.            *)
(*   percentages     floats holding one-decimal percentages are integers   *)
(*                   in tenths of a percent.                               *)
(*   confidence      the float confidence of a Recommendation is the pair  *)
(*                   <<h, u>>: the float of the decimal h/100, moved by u  *)
(*                   units in the last place.                              *)
(*   int(x * c)      the float product of an int and a decimal factor,     *)
(*                   truncated (FloatTrunc); quotients and products of     *)
(*                   floor areas are exact rationals.                      *)
(*   raised error    a call that raises has result [raised |-> name].      *)
(***************************************************************************)
EXTENDS Integers, Sequences, FiniteSets, TLC

VARIABLES
    pc,      \* "call": arguments supplied, "done": the function returned or
             \* raised; in the service specifications the position of each
             \* request and task
    fn,      \* name of the function being called, or of the service
    args,    \* record of the call's arguments, named as the parameters
    result,  \* what the call returned (<< >> while pc = "call")
    history, \* the calls the caller made before this one, oldest first, each
             \* with what it returned
    current_job_id,  \* the module global _current_job_id of api/scraper.py
    scrape_jobs,     \* the committed rows of the ScrapeJob table: id -> status
    properties,      \* the committed rows of the Property table: id -> status
    session          \* the Property objects loaded in the open database
                     \* session of the enrichment task: id -> status

\* the state of the scraper and enrichment services
services == <<current_job_id, scrape_jobs, properties, session>>

vars == <<pc, fn, args, result, history, current_job_id, scrape_jobs, properties, session>>

\* no scrape job exists, no property is stored and no session is open
ServicesAtRest ==
    /\ current_job_id = << >>
    /\ scrape_jobs = << >>
    /\ properties = << >>
    /\ session = << >>

----------------------------------------------------------------------------
(* Python values *)

None == << >>
Some(v) == <<v>>
\* truthiness of an Optional[int]: None and 0 are falsy
Truthy(o) == o # None /\ o[1] # 0
\* truthiness of an Optional[bool]
IsTrue(o) == o = Some(TRUE)
IsFalse(o) == o = Some(FALSE)
OptBool == {None, Some(TRUE), Some(FALSE)}

Max(a, b) == IF a >= b THEN a ELSE b
Min(a, b) == IF a <= b THEN a ELSE b

RECURSIVE SumSeq(_)
SumSeq(s) == IF s = << >> THEN 0 ELSE Head(s) + SumSeq(Tail(s))

\* all sequences over S of length 0..n
SeqUpTo(S, n) == UNION {[1..k -> S] : k \in 0..n}

\* the three digits of a thousands group, zero padded
Pad3(n) ==
    IF n < 10 THEN "00" \o ToString(n)
    ELSE IF n < 100 THEN "0" \o ToString(n)
    ELSE ToString(n)

\* the format specification ":," of an int
RECURSIVE FormatThousands(_)
FormatThousands(n) ==
    IF n < 0 THEN "-" \o FormatThousands(0 - n)
    ELSE IF n < 1000 THEN ToString(n)
    ELSE FormatThousands(n \div 1000) \o "," \o Pad3(n % 1000)

\* round(num / den) for den > 0, ties to the even neighbour, as round() and the
\* format specifications ".0f", ".1f" do
RoundHalfEven(num, den) ==
    LET q == num \div den
        r == num - q * den
    IN IF 2 * r > den THEN q + 1
       ELSE IF 2 * r < den THEN q
       ELSE IF q % 2 = 0 THEN q ELSE q + 1

\* int(num / den) for den > 0: truncation towards zero
IntTrunc(num, den) ==
    IF num >= 0 THEN num \div den ELSE 0 - ((0 - num) \div den)

RECURSIVE Log2Floor(_)
\* the exponent e of the binary float of n >= 1: 2^e <= n < 2^(e+1)
Log2Floor(n) == IF n < 2 THEN 0 ELSE 1 + Log2Floor(n \div 2)

\* The binary float that stands for a decimal factor c is c - (p/q) * 2^(g-52),
\* g being the exponent of c: <<p, q, g>> for the factors the valuation code
\* multiplies by, given in hundredths.  1 - 0.15, 1 + 0.15, 1 - 0.10 and
\* 1 + 0.10 evaluate to the floats of 0.85, 1.15, 0.9 and 1.1.
BinaryDeficit(hundredths) ==
    CASE hundredths = 80 -> <<-2, 5, -1>>
      [] hundredths = 85 -> <<1, 5, -1>>
      [] hundredths = 90 -> <<-1, 5, -1>>
      [] hundredths = 94 -> <<12, 25, -1>>
      [] hundredths = 97 -> <<6, 25, -1>>
      [] hundredths = 100 -> <<0, 1, 0>>
      [] hundredths = 103 -> <<-3, 25, 0>>
      [] hundredths = 105 -> <<-1, 5, 0>>
      [] hundredths = 110 -> <<-2, 5, 0>>
      [] hundredths = 115 -> <<2, 5, 0>>
      [] hundredths = 120 -> <<1, 5, 0>>

\* int(x * c) for an int x >= 0 and a float c that stands for num / den with
\* the deficit d.  The float product is the exact one rounded to 53 bits, so
\* it falls short of a whole product N = x * num / den, and int() gives N - 1,
\* exactly when the float of c lies below c by more than half the spacing of
\* the floats under N.
FloatTrunc(x, num, den, d) ==
    LET prod == x * num
        N == prod \div den
        e == Log2Floor(N)
    IN IF prod % den # 0 \/ d[1] <= 0 THEN N
       ELSE IF x * d[1] * 2^(d[3] + (IF N > 2^e THEN 2 ELSE 3)) > d[2] * 2^(e + 1)
       THEN N - 1
       ELSE N

\* int(x * factor) for a factor given in hundredths
IntTimes(x, hundredths) == FloatTrunc(x, hundredths, 100, BinaryDeficit(hundredths))

\* int(x * f / d) for x >= 0, f >= 0, d > 0, the product taken in two parts
MulDiv(x, f, d) == (x \div d) * f + ((x % d) * f) \div d

\* the format specification ".1f" of a value given in tenths
FormatTenths(t) ==
    IF t < 0 THEN "-" \o ToString((0 - t) \div 10) \o "." \o ToString((0 - t) % 10)
    ELSE ToString(t \div 10) \o "." \o ToString(t % 10)

\* the result of a call that raised
Raised(error) == [raised |-> error]
HasRaised(r) == "raised" \in DOMAIN r

\* the elements of a list of ints in ascending order: sorted(s)
RECURSIVE Insert(_, _)
Insert(x, s) ==
    IF s = << >> THEN <<x>>
    ELSE IF x <= Head(s) THEN <<x>> \o s
    ELSE <<Head(s)>> \o Insert(x, Tail(s))

RECURSIVE Sorted(_)
Sorted(s) == IF s = << >> THEN << >> ELSE Insert(Head(s), Sorted(Tail(s)))

----------------------------------------------------------------------------
(* analysis/recommendation.py *)

STRONG_PROCEED == "strong_proceed"
PROCEED == "proceed"
PROCEED_WITH_CAUTION == "proceed_caution"
REVIEW_REQUIRED == "review"
LIKELY_DECLINE == "likely_decline"
DECLINE == "decline"
INSUFFICIENT_DATA == "insufficient"

RecommendationLevel ==
    {STRONG_PROCEED, PROCEED, PROCEED_WITH_CAUTION, REVIEW_REQUIRED,
     LIKELY_DECLINE, DECLINE, INSUFFICIENT_DATA}

INITIAL == "initial"
ENRICHED == "enriched"
PARTIALLY_VERIFIED == "partial"
FULLY_VERIFIED == "verified"

\* the rejection and warning codes initial_screen can produce, with
\* code.replace("_", " ").title() and the substring tests of the caller
ScreeningCodes ==
    {"confirmed_leasehold", "red_flag_title_complexity", "red_flag_condition_risk",
     "unit_count_unclear", "large_block", "share_of_freehold",
     "price_per_unit_high", "price_per_unit_suspicious",
     "warning_mixed_use_complexity", "warning_leasehold_indicator"}

TitleCase(code) ==
    CASE code = "confirmed_leasehold" -> "Confirmed Leasehold"
      [] code = "red_flag_title_complexity" -> "Red Flag Title Complexity"
      [] code = "red_flag_condition_risk" -> "Red Flag Condition Risk"
      [] code = "unit_count_unclear" -> "Unit Count Unclear"
      [] code = "large_block" -> "Large Block"
      [] code = "share_of_freehold" -> "Share Of Freehold"
      [] code = "price_per_unit_high" -> "Price Per Unit High"
      [] code = "price_per_unit_suspicious" -> "Price Per Unit Suspicious"
      [] code = "warning_mixed_use_complexity" -> "Warning Mixed Use Complexity"
      [] code = "warning_leasehold_indicator" -> "Warning Leasehold Indicator"

\* "leasehold" in code or "freehold" in code
MentionsTenure(code) ==
    code \in {"confirmed_leasehold", "share_of_freehold", "warning_leasehold_indicator"}

\* _generate_summary
GenerateSummary(level, positive, negative, unknown) ==
    IF level = DECLINE
    THEN "This property has critical issues that make it unsuitable for title splitting. Do not proceed."
    ELSE IF level = STRONG_PROCEED
    THEN "Strong opportunity with " \o ToString(Len(positive)) \o " positive factors identified. "
         \o "Recommend proceeding to due diligence as a priority."
    ELSE IF level = PROCEED
    THEN "Good opportunity with " \o ToString(Len(positive)) \o " positive factors. "
         \o (IF negative # << >> THEN "Minor concerns to address." ELSE "No significant concerns.")
    ELSE IF level = PROCEED_WITH_CAUTION
    THEN "Potential opportunity but " \o ToString(Len(negative)) \o " concerns noted. "
         \o "Verify key items before committing."
    ELSE IF level = REVIEW_REQUIRED
    THEN "Mixed signals with " \o ToString(Len(unknown)) \o " unknown factors. "
         \o "Further investigation required before assessment."
    ELSE "Assessment pending - insufficient data for recommendation."

\* the Recommendation model with its field defaults
Recommendation(level, stage, confidence, headline, positive, negative, unknown, hard_blockers, soft_blockers, required_actions, optional_actions, estimated_net_benefit, benefit_confidence, risk_level) ==
    [level |-> level,
     stage |-> stage,
     confidence |-> confidence,
     headline |-> headline,
     summary |-> GenerateSummary(level, positive, negative, unknown),
     positive_factors |-> positive,
     negative_factors |-> negative,
     unknown_factors |-> unknown,
     hard_blockers |-> hard_blockers,
     soft_blockers |-> soft_blockers,
     required_actions |-> required_actions,
     optional_actions |-> optional_actions,
     estimated_net_benefit |-> estimated_net_benefit,
     benefit_confidence |-> benefit_confidence,
     risk_level |-> risk_level]

RECURSIVE RejectionBlockers(_, _)
\* the loop over screening_result.rejections: hard = TRUE collects the hard
\* blockers it appends, hard = FALSE the soft blockers
RejectionBlockers(rejections, hard) ==
    IF rejections = << >> THEN << >>
    ELSE (IF MentionsTenure(Head(rejections)) = hard
          THEN <<TitleCase(Head(rejections))>> ELSE << >>)
         \o RejectionBlockers(Tail(rejections), hard)

\* the warnings collected in a list that outlives the call: a later call
\* starts from what the calls before it left there
WarningFactorsKeptAcrossCalls(warnings) ==
    (IF history = << >> THEN << >>
     ELSE history[Len(history)].result.negative_factors)
        \o [i \in 1..Len(warnings) |-> TitleCase(warnings[i])]

RECURSIVE WarningFactors(_)
WarningFactors(warnings) ==
    IF warnings = << >> THEN << >>
    ELSE <<TitleCase(Head(warnings))>> \o WarningFactors(Tail(warnings))

\* the grading with the positive factors counted before the soft blockers
InitialLevelPositivesFirst(positive, negative, unknown, hard_blockers, soft_blockers) ==
    IF hard_blockers # << >> THEN DECLINE
    ELSE IF Len(positive) >= 3 /\ Len(negative) <= 1 THEN PROCEED
    ELSE IF Len(soft_blockers) >= 2 THEN LIKELY_DECLINE
    ELSE IF Len(unknown) >= 3 THEN REVIEW_REQUIRED
    ELSE IF Len(positive) >= 2 THEN PROCEED_WITH_CAUTION
    ELSE REVIEW_REQUIRED

InitialLevel(positive, negative, unknown, hard_blockers, soft_blockers) ==
    IF hard_blockers # << >> THEN DECLINE
    ELSE IF Len(soft_blockers) >= 2 THEN LIKELY_DECLINE
    ELSE IF Len(unknown) >= 3 THEN REVIEW_REQUIRED
    ELSE IF Len(positive) >= 3 /\ Len(negative) <= 1 THEN PROCEED
    ELSE IF Len(positive) >= 2 THEN PROCEED_WITH_CAUTION
    ELSE REVIEW_REQUIRED

InitialHeadline(positive, negative, unknown, hard_blockers, soft_blockers) ==
    IF hard_blockers # << >> THEN "Not suitable - deal-breaking issues identified"
    ELSE IF Len(soft_blockers) >= 2 THEN "Significant concerns - likely not viable"
    ELSE IF Len(unknown) >= 3 THEN "Insufficient data - requires investigation"
    ELSE IF Len(positive) >= 3 /\ Len(negative) <= 1
    THEN "Promising opportunity - proceed to due diligence"
    ELSE IF Len(positive) >= 2 THEN "Potential opportunity - verify key items"
    ELSE "Mixed signals - requires deeper analysis"

generate_initial_recommendation(property, screening_result) ==
    LET units == property.estimated_units
        n == IF units = None THEN 0 ELSE units[1]
        ppu == IF property.price_per_unit = None THEN 0 ELSE property.price_per_unit[1]
        unitPos ==
            IF Truthy(units) /\ 2 <= n /\ n <= 6
            THEN <<ToString(n) \o " units - ideal size for title split">>
            ELSE IF Truthy(units) /\ 7 <= n /\ n <= 10
            THEN <<ToString(n) \o " units - good size, manageable complexity">>
            ELSE << >>
        unitSoft ==
            IF Truthy(units) /\ ~(2 <= n /\ n <= 10) /\ n > 10
            THEN <<ToString(n) \o " units may be too complex">> ELSE << >>
        unitUnknown ==
            IF Truthy(units) THEN << >>
            ELSE <<"Unit count unclear from listing - needs verification">>
        tenurePos ==
            IF property.tenure = "freehold"
            THEN IF property.tenure_confidence > 80
                 THEN <<"Freehold tenure stated in listing">>
                 ELSE <<"Likely freehold (needs title verification)">>
            ELSE << >>
        tenureHard ==
            IF property.tenure = "leasehold"
            THEN <<"Leasehold - not suitable for title splitting">>
            ELSE IF property.tenure = "share_of_freehold"
            THEN <<"Share of freehold - already split, no opportunity">>
            ELSE << >>
        tenureUnknown ==
            IF property.tenure \in {"freehold", "leasehold", "share_of_freehold"}
            THEN << >> ELSE <<"Tenure not stated - critical to verify">>
        pricePos ==
            IF ~Truthy(property.price_per_unit) THEN << >>
            ELSE IF ppu < 40000
            THEN <<"Low entry at £" \o FormatThousands(ppu) \o "/unit">>
            ELSE IF ppu < 60000
            THEN <<"Reasonable pricing at £" \o FormatThousands(ppu) \o "/unit">>
            ELSE << >>
        priceNeg ==
            IF Truthy(property.price_per_unit) /\ 60000 <= ppu /\ ppu < 80000
            THEN <<"Higher entry at £" \o FormatThousands(ppu) \o "/unit">> ELSE << >>
        priceSoft ==
            IF Truthy(property.price_per_unit) /\ ppu >= 80000
            THEN <<"Premium pricing at £" \o FormatThousands(ppu) \o "/unit">> ELSE << >>
        refurbPos ==
            IF property.refurb_indicators
            THEN <<"Refurbishment opportunity - value-add potential">> ELSE << >>
        positive == unitPos \o tenurePos \o pricePos \o refurbPos
        negative == priceNeg \o WarningFactors(screening_result.warnings)
        unknown == unitUnknown \o tenureUnknown
        hard_blockers == tenureHard \o RejectionBlockers(screening_result.rejections, TRUE)
        soft_blockers == unitSoft \o priceSoft
                         \o RejectionBlockers(screening_result.rejections, FALSE)
        \* "tenure" in str(unknown).lower() or property.tenure == "unknown"
        required_actions ==
            (IF tenureUnknown # << >> \/ property.tenure = "unknown"
             THEN <<"Verify freehold tenure via Land Registry (£3)">> ELSE << >>)
            \o (IF units = None
                THEN <<"Confirm unit count from EPC data or viewing">> ELSE << >>)
            \o <<"Order title register to check for charges/restrictions">>
    IN Recommendation(
           InitialLevel(positive, negative, unknown, hard_blockers, soft_blockers),
           INITIAL, <<40, 0>>,
           InitialHeadline(positive, negative, unknown, hard_blockers, soft_blockers),
           positive, negative, unknown, hard_blockers, soft_blockers,
           required_actions,
           <<"Request agent call for more details",
             "Check planning portal for history",
             "Review EPC certificates for each unit">>,
           None, "none", "unknown")

EnrichedLevel(positive, negative, hard_blockers, soft_blockers) ==
    IF hard_blockers # << >> THEN DECLINE
    ELSE IF Len(soft_blockers) >= 2 THEN LIKELY_DECLINE
    ELSE IF Len(positive) >= 4 /\ negative = << >> THEN STRONG_PROCEED
    ELSE IF Len(positive) >= 3 THEN PROCEED
    ELSE IF Len(positive) >= 2 THEN PROCEED_WITH_CAUTION
    ELSE REVIEW_REQUIRED

EnrichedHeadline(positive, negative, hard_blockers, soft_blockers) ==
    IF hard_blockers # << >> THEN "Not viable - critical issues identified"
    ELSE IF Len(soft_blockers) >= 2 THEN "Marginal opportunity - significant concerns"
    ELSE IF Len(positive) >= 4 /\ negative = << >>
    THEN "Strong opportunity - priority for due diligence"
    ELSE IF Len(positive) >= 3 THEN "Good opportunity - proceed to verification"
    ELSE IF Len(positive) >= 2 THEN "Potential opportunity - address concerns"
    ELSE "Further investigation needed"

\* Floats from 0.5 up to 1 are the multiples of 2^-53.  The pair <<k, off>> is
\* the real number k/10 + off * 2^-53 / 20; as 2^54 = 4 (mod 20), it is such
\* a float when 4 * k + off is a multiple of 20.  TenthFloat(k) is the float
\* of the decimal k/10.
TenthFloat(k) == <<k, LET m == (4 * k) % 20 IN IF m <= 10 THEN -m ELSE 20 - m>>

\* x + 0.1 for a float x: the float of 0.1 is 0.1 + 2^-53 / 20, and the real
\* sum is rounded to the nearest multiple of 2^-53
AddTenth(x) ==
    LET off == x[2] + 1
        m == (4 * (x[1] + 1) + off) % 20
    IN <<x[1] + 1, IF m < 10 THEN off - m ELSE off + 20 - m>>

FloatLess(x, y) == x[1] < y[1] \/ (x[1] = y[1] /\ x[2] < y[2])

\* <<k, off>> as hundredths and units in the last place
AsConfidence(x) == <<10 * x[1], (x[2] - TenthFloat(x[1])[2]) \div 20>>

\* the confidence that counts three comparables as coverage
EnrichedConfidenceFromThreeComparables(units, epc_count, comparable_count, estimated_uplift) ==
    LET c0 == TenthFloat(5)
        c1 == IF epc_count >= units THEN AddTenth(c0) ELSE c0
        c2 == IF comparable_count >= 3 THEN AddTenth(c1) ELSE c1
        c3 == IF Truthy(estimated_uplift) THEN AddTenth(c2) ELSE c2
    IN AsConfidence(IF FloatLess(TenthFloat(8), c3) THEN TenthFloat(8) ELSE c3)

\* confidence = 0.5, += 0.1 three times over, min(confidence, 0.8); units is
\* property.estimated_units or 0
EnrichedConfidence(units, epc_count, comparable_count, estimated_uplift) ==
    LET c0 == TenthFloat(5)
        c1 == IF epc_count >= units THEN AddTenth(c0) ELSE c0
        c2 == IF comparable_count >= 5 THEN AddTenth(c1) ELSE c1
        c3 == IF Truthy(estimated_uplift) THEN AddTenth(c2) ELSE c2
    IN AsConfidence(IF FloatLess(TenthFloat(8), c3) THEN TenthFloat(8) ELSE c3)

generate_enriched_recommendation(property, epc_count, comparable_count, estimated_uplift) ==
    LET units == property.estimated_units
        \* property.estimated_units or 0
        n == IF units = None THEN 0 ELSE units[1]
        uplift == IF estimated_uplift = None THEN 0 ELSE estimated_uplift[1]
        rating == property.avg_epc_rating
        tenurePos ==
            IF property.tenure = "freehold"
            THEN <<"Freehold tenure confirmed/likely">> ELSE << >>
        tenureHard ==
            IF property.tenure = "leasehold" THEN <<"Leasehold tenure">> ELSE << >>
        unitPos ==
            IF Truthy(units) /\ 2 <= n /\ n <= 8
            THEN <<ToString(n) \o " units - suitable scale">> ELSE << >>
        epcPos ==
            IF epc_count >= n
            THEN <<"EPC data found for all " \o ToString(epc_count) \o " units">>
            ELSE << >>
        epcNeg ==
            IF epc_count < n /\ epc_count > 0
            THEN <<"Only " \o ToString(epc_count) \o " EPCs found - may be missing units">>
            ELSE << >>
        epcUnknown ==
            IF epc_count < n /\ epc_count <= 0
            THEN <<"No EPC data - floor areas unverified">> ELSE << >>
        compPos ==
            IF comparable_count >= 10
            THEN <<"Strong comparable evidence (" \o ToString(comparable_count) \o " sales)">>
            ELSE IF comparable_count >= 5
            THEN <<"Good comparable evidence (" \o ToString(comparable_count) \o " sales)">>
            ELSE << >>
        compNeg ==
            IF comparable_count < 5 /\ comparable_count >= 3
            THEN <<"Limited comparables (" \o ToString(comparable_count) \o " sales)">>
            ELSE << >>
        compUnknown ==
            IF comparable_count < 3
            THEN <<"Insufficient comparable sales data">> ELSE << >>
        upliftPos ==
            IF ~Truthy(estimated_uplift) THEN << >>
            ELSE IF uplift >= 50000
            THEN <<"Strong gross uplift potential: £" \o FormatThousands(uplift)>>
            ELSE IF uplift >= 25000
            THEN <<"Good gross uplift potential: £" \o FormatThousands(uplift)>>
            ELSE << >>
        upliftNeg ==
            IF Truthy(estimated_uplift) /\ uplift < 25000 /\ uplift >= 10000
            THEN <<"Modest uplift potential: £" \o FormatThousands(uplift)>> ELSE << >>
        upliftSoft ==
            IF Truthy(estimated_uplift) /\ uplift < 10000
            THEN <<"Limited uplift: £" \o FormatThousands(uplift)>> ELSE << >>
        ratingPos ==
            IF rating \in {Some("E"), Some("F"), Some("G")}
            THEN <<"Average EPC " \o rating[1] \o " - EPC uplift opportunity">>
            ELSE IF rating = Some("D")
            THEN <<"EPC D - some improvement potential">>
            ELSE << >>
        positive == tenurePos \o unitPos \o epcPos \o compPos \o upliftPos \o ratingPos
        negative == epcNeg \o compNeg \o upliftNeg
        unknown == epcUnknown \o compUnknown
        hard_blockers == tenureHard
        soft_blockers == upliftSoft
    IN Recommendation(
           EnrichedLevel(positive, negative, hard_blockers, soft_blockers),
           ENRICHED, EnrichedConfidence(n, epc_count, comparable_count, estimated_uplift),
           EnrichedHeadline(positive, negative, hard_blockers, soft_blockers),
           positive, negative, unknown, hard_blockers, soft_blockers,
           <<"Order official title copies from Land Registry",
             "Arrange viewing to verify unit layout",
             "Check planning portal for conversion consent">>,
           << >>,
           estimated_uplift,
           IF comparable_count >= 5 THEN "medium" ELSE "low",
           "medium")

\* tv.tenure_confirmed, tv.is_single_title, tv.title_class
VerificationFactors(verification, kind) ==
    IF verification = None THEN << >>
    ELSE LET tv == verification[1] IN
         CASE kind = "positive" ->
                (IF tv.tenure_confirmed = Some("freehold")
                 THEN <<"Freehold tenure verified via Land Registry">> ELSE << >>)
                \o (IF IsTrue(tv.is_single_title)
                    THEN <<"Single title confirmed - clear for splitting">> ELSE << >>)
                \o (IF tv.title_class = Some("absolute")
                    THEN <<"Absolute title class - best quality">> ELSE << >>)
           [] kind = "hard" ->
                (IF tv.tenure_confirmed = Some("leasehold")
                 THEN <<"Leasehold tenure - not suitable">> ELSE << >>)
                \o (IF IsFalse(tv.is_single_title)
                    THEN <<"Already split into multiple titles">> ELSE << >>)
           [] kind = "soft" ->
                (IF tv.title_class = Some("possessory")
                 THEN <<"Possessory title - requires insurance">> ELSE << >>)

RECURSIVE ChargeFactors(_, _)
\* the loop over manual_inputs.title.charges
ChargeFactors(charges, kind) ==
    IF charges = << >> THEN << >>
    ELSE LET charge == Head(charges)
             line ==
                 IF charge.consent_likelihood = Some("refused")
                 THEN IF kind = "hard"
                      THEN <<"Lender consent refused: " \o charge.lender_name>> ELSE << >>
                 ELSE IF charge.consent_likelihood = Some("unlikely")
                 THEN IF kind = "soft"
                      THEN <<"Lender consent unlikely: " \o charge.lender_name>> ELSE << >>
                 ELSE IF charge.consent_likelihood = Some("likely")
                 THEN IF kind = "positive"
                      THEN <<"Lender consent likely: " \o charge.lender_name>> ELSE << >>
                 ELSE << >>
         IN line \o ChargeFactors(Tail(charges), kind)

RECURSIVE CovenantFactors(_, _)
\* the loop over manual_inputs.title.covenants
CovenantFactors(covenants, kind) ==
    IF covenants = << >> THEN << >>
    ELSE LET covenant == Head(covenants)
             line ==
                 IF IsTrue(covenant.affects_title_split) /\ covenant.breach_risk = Some("high")
                 THEN IF kind = "hard"
                      THEN <<"Covenant blocks split: " \o covenant.covenant_summary>> ELSE << >>
                 ELSE IF IsTrue(covenant.affects_title_split)
                 THEN IF kind = "soft"
                      THEN <<"Covenant concern: " \o covenant.covenant_summary>> ELSE << >>
                 ELSE << >>
         IN line \o CovenantFactors(Tail(covenants), kind)

\* ps.current_use_class, ps.original_conversion_consented
PlanningFactors(planning_status, kind) ==
    IF planning_status = None THEN << >>
    ELSE LET ps == planning_status[1] IN
         CASE kind = "positive" ->
                (IF ps.current_use_class = Some("C3")
                 THEN <<"C3 use class confirmed">> ELSE << >>)
                \o (IF IsTrue(ps.original_conversion_consented)
                    THEN <<"Original conversion properly consented">> ELSE << >>)
           [] kind = "hard" ->
                (IF IsFalse(ps.original_conversion_consented)
                 THEN <<"Conversion not consented - regularisation needed">> ELSE << >>)
           [] kind = "soft" ->
                (IF ps.current_use_class = Some("sui generis")
                 THEN <<"Sui generis use class - may complicate">> ELSE << >>)

\* the licence test that asks for an answer: licence_held is False
HmoFactorsLicenceAnswered(hmo_licensing, kind) ==
    IF hmo_licensing = None THEN << >>
    ELSE LET hmo == hmo_licensing[1] IN
         IF kind = "hard" /\ IsTrue(hmo.requires_mandatory_licence) /\ IsFalse(hmo.licence_held)
         THEN <<"HMO licence required but not held">> ELSE << >>

\* hmo.requires_mandatory_licence and not hmo.licence_held
HmoFactors(hmo_licensing, kind) ==
    IF hmo_licensing = None THEN << >>
    ELSE LET hmo == hmo_licensing[1] IN
         IF kind = "hard" /\ IsTrue(hmo.requires_mandatory_licence) /\ ~IsTrue(hmo.licence_held)
         THEN <<"HMO licence required but not held">> ELSE << >>

\* all(u.is_self_contained for u in units if u.is_self_contained is not None)
AllSelfContained(units) ==
    \A i \in 1..Len(units) :
        units[i].is_self_contained # None => IsTrue(units[i].is_self_contained)

PhysicalFactors(physical, kind) ==
    IF physical = None THEN << >>
    ELSE LET units == physical[1].units IN
         IF AllSelfContained(units)
         THEN IF kind = "positive"
              THEN <<"All units verified as self-contained">> ELSE << >>
         ELSE IF \E i \in 1..Len(units) : IsFalse(units[i].is_self_contained)
         THEN IF kind = "hard" THEN <<"Not all units self-contained">> ELSE << >>
         ELSE << >>

\* the positive-factor grades tested before the blockers
VerifiedLevelPositivesFirst(positive, hard_blockers, soft_blockers) ==
    IF Len(positive) >= 5 /\ soft_blockers = << >> THEN STRONG_PROCEED
    ELSE IF hard_blockers # << >> THEN DECLINE
    ELSE IF Len(soft_blockers) >= 2 THEN LIKELY_DECLINE
    ELSE IF Len(positive) >= 4 THEN PROCEED
    ELSE PROCEED_WITH_CAUTION

\* the grading with STRONG_PROCEED given whatever the soft blockers
VerifiedLevelIgnoringSoftBlocker(positive, hard_blockers, soft_blockers) ==
    IF hard_blockers # << >> THEN DECLINE
    ELSE IF Len(soft_blockers) >= 2 THEN LIKELY_DECLINE
    ELSE IF Len(positive) >= 5 THEN STRONG_PROCEED
    ELSE IF Len(positive) >= 4 THEN PROCEED
    ELSE PROCEED_WITH_CAUTION

VerifiedLevel(positive, hard_blockers, soft_blockers) ==
    IF hard_blockers # << >> THEN DECLINE
    ELSE IF Len(soft_blockers) >= 2 THEN LIKELY_DECLINE
    ELSE IF Len(positive) >= 5 /\ soft_blockers = << >> THEN STRONG_PROCEED
    ELSE IF Len(positive) >= 4 THEN PROCEED
    ELSE PROCEED_WITH_CAUTION

VerifiedHeadline(positive, hard_blockers, soft_blockers) ==
    IF hard_blockers # << >> THEN "Do not proceed - verified blockers present"
    ELSE IF Len(soft_blockers) >= 2 THEN "Significant verified concerns - likely not viable"
    ELSE IF Len(positive) >= 5 /\ soft_blockers = << >>
    THEN "Verified opportunity - proceed to purchase"
    ELSE IF Len(positive) >= 4 THEN "Good verified opportunity - proceed"
    ELSE "Proceed with noted concerns"

generate_verified_recommendation(property, manual_inputs, estimated_net_benefit) ==
    LET Factors(kind) ==
            VerificationFactors(manual_inputs.title.verification, kind)
            \o ChargeFactors(manual_inputs.title.charges, kind)
            \o CovenantFactors(manual_inputs.title.covenants, kind)
            \o PlanningFactors(manual_inputs.planning.planning_status, kind)
            \o HmoFactors(manual_inputs.planning.hmo_licensing, kind)
            \o PhysicalFactors(manual_inputs.physical, kind)
        positive == Factors("positive") \o manual_inputs.manual_green_flags
        negative == << >>
        hard_blockers == Factors("hard") \o manual_inputs.manual_red_flags
        soft_blockers == Factors("soft")
    IN Recommendation(
           VerifiedLevel(positive, hard_blockers, soft_blockers),
           FULLY_VERIFIED,
           IF hard_blockers = << >> THEN <<90, 0>> ELSE <<95, 0>>,
           VerifiedHeadline(positive, hard_blockers, soft_blockers),
           positive, negative, << >>, hard_blockers, soft_blockers,
           <<IF hard_blockers = << >> THEN "Proceed to offer" ELSE "Do not proceed">>,
           << >>,
           estimated_net_benefit,
           IF Truthy(estimated_net_benefit) THEN "high" ELSE "medium",
           IF Len(positive) > Len(soft_blockers) THEN "low" ELSE "medium")

----------------------------------------------------------------------------
(* Calls of the stage functions *)

MaxEpcCount == 9
MaxComparableCount == 10
MaxCharges == 1
MaxCovenants == 1
MaxUnitsVerified == 2
MaxFlags == 1

Tenures == {"freehold", "leasehold", "share_of_freehold", "unknown"}
UnitCounts == {None, Some(0), Some(1), Some(3), Some(8), Some(11)}
PricesPerUnit == {None, Some(30000), Some(50000), Some(70000), Some(90000)}
EpcRatings == {None, Some("C"), Some("D"), Some("E")}
Uplifts == {None, Some(0), Some(0 - 5000), Some(5000), Some(10000), Some(25000), Some(50000)}

PropertyRecord(units, tenure, tenure_confidence, price_per_unit, refurb, rating) ==
    [estimated_units |-> units,
     tenure |-> tenure,
     tenure_confidence |-> tenure_confidence,
     price_per_unit |-> price_per_unit,
     refurb_indicators |-> refurb,
     avg_epc_rating |-> rating]

\* listings as the scraper stores them, before enrichment
ListedProperties ==
    {PropertyRecord(u, t, c, p, r, None) :
        u \in UnitCounts, t \in Tenures, c \in {50, 90}, p \in PricesPerUnit, r \in BOOLEAN}

\* properties after enrichment has set the average EPC rating
EnrichedProperties ==
    {PropertyRecord(u, t, 90, Some(50000), FALSE, e) :
        u \in UnitCounts, t \in {"freehold", "leasehold", "unknown"}, e \in EpcRatings}

ScreeningResults ==
    {[rejections |-> r, warnings |-> w] :
        r \in {<< >>, <<"confirmed_leasehold">>, <<"red_flag_condition_risk">>,
               <<"confirmed_leasehold", "red_flag_condition_risk">>,
               <<"red_flag_title_complexity", "red_flag_condition_risk">>},
        w \in {<< >>, <<"unit_count_unclear">>,
               <<"large_block", "warning_mixed_use_complexity">>}}

TitleVerifications ==
    {None} \cup
    {Some([tenure_confirmed |-> t, is_single_title |-> s, title_class |-> c]) :
        t \in {None, Some("freehold"), Some("leasehold")},
        s \in OptBool,
        c \in {None, Some("absolute"), Some("possessory")}}

ExistingCharges ==
    {[lender_name |-> "Northern Bank", consent_likelihood |-> l] :
        l \in {None, Some("likely"), Some("unlikely"), Some("refused")}}

RestrictiveCovenants ==
    {[covenant_summary |-> "No subdivision", affects_title_split |-> a, breach_risk |-> b] :
        a \in {None, Some(TRUE)}, b \in {Some("low"), Some("high")}}

PlanningStatuses ==
    {None} \cup
    {Some([current_use_class |-> u, original_conversion_consented |-> c]) :
        u \in {None, Some("C3"), Some("sui generis")}, c \in OptBool}

HmoLicensings ==
    {None} \cup
    {Some([requires_mandatory_licence |-> r, licence_held |-> h]) :
        r \in OptBool, h \in OptBool}

UnitVerifications == {[is_self_contained |-> sc] : sc \in OptBool}

PhysicalVerifications ==
    {None} \cup {Some([units |-> us]) : us \in SeqUpTo(UnitVerifications, MaxUnitsVerified)}

TitleInputs ==
    {[verification |-> v, charges |-> ch, covenants |-> co] :
        v \in TitleVerifications,
        ch \in SeqUpTo(ExistingCharges, MaxCharges),
        co \in SeqUpTo(RestrictiveCovenants, MaxCovenants)}

\* planning, physical and flag inputs of a ManualInputs record
OtherInputs ==
    {[planning |-> [planning_status |-> ps, hmo_licensing |-> hmo],
      physical |-> ph, manual_red_flags |-> red, manual_green_flags |-> green] :
        ps \in PlanningStatuses, hmo \in HmoLicensings, ph \in PhysicalVerifications,
        red \in SeqUpTo({"Asbestos reported"}, MaxFlags),
        green \in SeqUpTo({"Motivated vendor"}, MaxFlags)}

NoTitleInputs == [verification |-> None, charges |-> << >>, covenants |-> << >>]

GoodTitleInputs ==
    [verification |-> Some([tenure_confirmed |-> Some("freehold"),
                            is_single_title |-> Some(TRUE),
                            title_class |-> Some("absolute")]),
     charges |-> <<[lender_name |-> "Northern Bank", consent_likelihood |-> Some("likely")]>>,
     covenants |-> << >>]

WeakTitleInputs ==
    [verification |-> Some([tenure_confirmed |-> Some("freehold"),
                            is_single_title |-> None,
                            title_class |-> Some("possessory")]),
     charges |-> <<[lender_name |-> "Northern Bank", consent_likelihood |-> Some("unlikely")]>>,
     covenants |-> << >>]

NoOtherInputs ==
    [planning |-> [planning_status |-> None, hmo_licensing |-> None],
     physical |-> None, manual_red_flags |-> << >>, manual_green_flags |-> << >>]

GoodOtherInputs ==
    [planning |-> [planning_status |-> Some([current_use_class |-> Some("C3"),
                                             original_conversion_consented |-> Some(TRUE)]),
                   hmo_licensing |-> None],
     physical |-> Some([units |-> <<[is_self_contained |-> Some(TRUE)]>>]),
     manual_red_flags |-> << >>, manual_green_flags |-> << >>]

WeakOtherInputs ==
    [planning |-> [planning_status |-> Some([current_use_class |-> Some("sui generis"),
                                             original_conversion_consented |-> None]),
                   hmo_licensing |-> None],
     physical |-> None, manual_red_flags |-> << >>, manual_green_flags |-> << >>]

ManualInputsRecord(title, other) ==
    [title |-> title,
     planning |-> other.planning,
     physical |-> other.physical,
     manual_red_flags |-> other.manual_red_flags,
     manual_green_flags |-> other.manual_green_flags]

TitleProfiles == {NoTitleInputs, GoodTitleInputs, WeakTitleInputs}
OtherProfiles == {NoOtherInputs, GoodOtherInputs, WeakOtherInputs}

DefaultProperty == PropertyRecord(Some(3), "freehold", 90, Some(50000), FALSE, None)

\* a call of generate_initial_recommendation
InitialCall ==
    /\ fn = "generate_initial_recommendation"
    /\ \E p \in ListedProperties, sr \in ScreeningResults :
           args = [property |-> p, screening_result |-> sr]

\* a call of generate_enriched_recommendation
EnrichedCall ==
    /\ fn = "generate_enriched_recommendation"
    /\ \E p \in EnrichedProperties, e \in 0..MaxEpcCount,
          c \in 0..MaxComparableCount, u \in Uplifts :
           args = [property |-> p, epc_count |-> e, comparable_count |-> c,
                   estimated_uplift |-> u]

\* a call of generate_verified_recommendation: every title record against a
\* few inspection records, and every inspection record against a few title
\* records
VerifiedCall ==
    /\ fn = "generate_verified_recommendation"
    /\ \E b \in {None, Some(30000)} :
          \/ \E t \in TitleInputs, o \in OtherProfiles :
                 args = [property |-> DefaultProperty,
                         manual_inputs |-> ManualInputsRecord(t, o),
                         estimated_net_benefit |-> b]
          \/ \E t \in TitleProfiles, o \in OtherInputs :
                 args = [property |-> DefaultProperty,
                         manual_inputs |-> ManualInputsRecord(t, o),
                         estimated_net_benefit |-> b]

InitRec ==
    /\ pc = "call"
    /\ result = << >>
    /\ history = << >>
    /\ ServicesAtRest
    /\ (InitialCall \/ EnrichedCall \/ VerifiedCall)

GenerateInitial ==
    /\ pc = "call"
    /\ fn = "generate_initial_recommendation"
    /\ result' = generate_initial_recommendation(args.property, args.screening_result)
    /\ pc' = "done"
    /\ UNCHANGED <<fn, args, history, services>>

GenerateEnriched ==
    /\ pc = "call"
    /\ fn = "generate_enriched_recommendation"
    /\ result' = generate_enriched_recommendation(
                     args.property, args.epc_count, args.comparable_count,
                     args.estimated_uplift)
    /\ pc' = "done"
    /\ UNCHANGED <<fn, args, history, services>>

GenerateVerified ==
    /\ pc = "call"
    /\ fn = "generate_verified_recommendation"
    /\ result' = generate_verified_recommendation(
                     args.property, args.manual_inputs, args.estimated_net_benefit)
    /\ pc' = "done"
    /\ UNCHANGED <<fn, args, history, services>>

NextRec == GenerateInitial \/ GenerateEnriched \/ GenerateVerified

SpecRec == InitRec /\ [][NextRec]_vars

StageFunctions ==
    {"generate_initial_recommendation", "generate_enriched_recommendation",
     "generate_verified_recommendation"}

\* C1: a Recommendation returned by any of the three stage functions that
\* has a non-empty hard_blockers list has level DECLINE.
HardBlockersDecline ==
    (pc = "done" /\ fn \in StageFunctions /\ result.hard_blockers # << >>)
        => result.level = DECLINE

\* the verified stage found a hard blocker next to five or more positives
HardBlockerBesidePositives ==
    /\ pc = "done"
    /\ fn = "generate_verified_recommendation"
    /\ result.hard_blockers # << >>
    /\ Len(result.positive_factors) >= 5
    /\ result.level = DECLINE

\* C17: a Recommendation returned by any of the three stage functions with
\* no hard blocker and two or more soft blockers has level LIKELY_DECLINE,
\* however many positive factors it lists.
SoftBlockersLikelyDecline ==
    (pc = "done" /\ fn \in StageFunctions
        /\ result.hard_blockers = << >> /\ Len(result.soft_blockers) >= 2)
        => result.level = LIKELY_DECLINE

\* the initial stage found two soft blockers next to four positive factors
\* and at most one negative factor
SoftBlockersBesidePositives ==
    /\ pc = "done"
    /\ fn = "generate_initial_recommendation"
    /\ result.hard_blockers = << >>
    /\ Len(result.soft_blockers) >= 2
    /\ Len(result.positive_factors) >= 4
    /\ Len(result.negative_factors) <= 1
    /\ result.level = LIKELY_DECLINE

\* C18: without a hard blocker and with fewer than two soft blockers,
\* generate_verified_recommendation returns STRONG_PROCEED for five or more
\* positive factors and no soft blocker, otherwise PROCEED for four or more
\* positive factors, otherwise PROCEED_WITH_CAUTION; it returns neither
\* REVIEW_REQUIRED nor INSUFFICIENT_DATA in any case.
VerifiedGrading ==
    (pc = "done" /\ fn = "generate_verified_recommendation") =>
        /\ result.level \notin {REVIEW_REQUIRED, INSUFFICIENT_DATA}
        /\ (result.hard_blockers = << >> /\ Len(result.soft_blockers) < 2)
              => result.level =
                     IF Len(result.positive_factors) >= 5 /\ Len(result.soft_blockers) = 0
                     THEN STRONG_PROCEED
                     ELSE IF Len(result.positive_factors) >= 4 THEN PROCEED
                     ELSE PROCEED_WITH_CAUTION

\* five positive factors beside one soft blocker are graded PROCEED
OneSoftBlockerHoldsBackStrong ==
    /\ pc = "done"
    /\ fn = "generate_verified_recommendation"
    /\ result.hard_blockers = << >>
    /\ Len(result.soft_blockers) = 1
    /\ Len(result.positive_factors) >= 5
    /\ result.level = PROCEED

----------------------------------------------------------------------------
(* Calling a stage function again *)

\* calls a caller makes one after the other
MaxCalls == 3

\* the call of another stage function a caller makes between two identical
\* calls of f
InterveningCall(f) ==
    IF f = "generate_initial_recommendation"
    THEN [fn |-> "generate_enriched_recommendation",
          args |-> [property |-> DefaultProperty, epc_count |-> 3,
                    comparable_count |-> 5, estimated_uplift |-> Some(30000)]]
    ELSE [fn |-> "generate_initial_recommendation",
          args |-> [property |-> DefaultProperty,
                    screening_result |->
                        [rejections |-> <<"red_flag_condition_risk">>,
                         warnings |-> <<"unit_count_unclear">>]]]

\* the caller keeps what the call returned and makes its first call again
CallAgain ==
    /\ pc = "done"
    /\ fn \in StageFunctions
    /\ Len(history) < MaxCalls - 1
    /\ history' = Append(history, [fn |-> fn, args |-> args, result |-> result])
    /\ fn' = IF history = << >> THEN fn ELSE history[1].fn
    /\ args' = IF history = << >> THEN args ELSE history[1].args
    /\ result' = << >>
    /\ pc' = "call"
    /\ UNCHANGED services

\* the caller keeps what its first call returned and calls another stage
\* function
CallBetween ==
    /\ pc = "done"
    /\ fn \in StageFunctions
    /\ history = << >>
    /\ Len(history) < MaxCalls - 1
    /\ history' = Append(history, [fn |-> fn, args |-> args, result |-> result])
    /\ fn' = InterveningCall(fn).fn
    /\ args' = InterveningCall(fn).args
    /\ result' = << >>
    /\ pc' = "call"
    /\ UNCHANGED services

NextRepeat ==
    \/ GenerateInitial
    \/ GenerateEnriched
    \/ GenerateVerified
    \/ CallAgain
    \/ CallBetween

SpecRepeat == InitRec /\ [][NextRepeat]_vars

----------------------------------------------------------------------------
(* analysis/gdv_calculator.py *)

\* yields are whole percentages: min_yield = 0.05 is 5
\* implied_yield <= min_yield
YieldAtOrBelowMinimum(annual_rent, estimated_value, min_yield) ==
    annual_rent * 100 <= min_yield * estimated_value

\* implied_yield < min_yield, the yields in whole percents
YieldBelowMinimum(annual_rent, estimated_value, min_yield) ==
    annual_rent * 100 < min_yield * estimated_value

\* validate_unit_value_against_rent.  min_yield and max_yield are whole
\* percents (5 for 0.05); annual_rent / min_yield is then a whole number.
validate_unit_value_against_rent(estimated_value, monthly_rent, min_yield, max_yield) ==
    IF monthly_rent <= 0 \/ estimated_value <= 0
    THEN [valid |-> TRUE, skipped |-> TRUE, reason |-> "missing rent or value data"]
    ELSE LET annual_rent == monthly_rent * 12
             \* round(implied_yield * 100, 2), in hundredths of a percent
             implied_yield == RoundHalfEven(annual_rent * 10000, estimated_value)
             \* the ".1f" of implied_yield * 100
             shown == FormatTenths(RoundHalfEven(annual_rent * 1000, estimated_value))
         IN IF YieldBelowMinimum(annual_rent, estimated_value, min_yield)
            THEN [valid |-> FALSE,
                  issue |-> "value_too_high",
                  original_value |-> estimated_value,
                  corrected_value |-> IntTrunc(annual_rent * 100, min_yield),
                  implied_yield |-> implied_yield,
                  expected_yield_range |->
                      ToString(min_yield) \o "%-" \o ToString(max_yield) \o "%",
                  message |-> "Value £" \o FormatThousands(estimated_value) \o " implies "
                              \o shown \o "% yield - too low for this area"]
            \* implied_yield > max_yield
            ELSE IF annual_rent * 100 > max_yield * estimated_value
            THEN [valid |-> TRUE,
                  note |-> "conservative_valuation",
                  implied_yield |-> implied_yield,
                  message |-> "Value £" \o FormatThousands(estimated_value) \o " implies "
                              \o shown \o "% yield - may be undervalued"]
            ELSE [valid |-> TRUE,
                  implied_yield |-> implied_yield,
                  message |-> "Yield " \o shown \o "% is within expected range"]

IsFlat(c) == c.property_type = "F"
FlatsOf(comparables) == SelectSeq(comparables, IsFlat)
NonFlatsOf(comparables) == SelectSeq(comparables, LAMBDA c : ~IsFlat(c))

RECURSIVE SumPrices(_)
SumPrices(comparables) ==
    IF comparables = << >> THEN 0
    ELSE Head(comparables).price + SumPrices(Tail(comparables))

PropertyTypes(comparables) == {comparables[i].property_type : i \in 1..Len(comparables)}

\* Check 1: gdv_per_unit > asking_price, gdv_per_unit being 0 without units
UnitExceedsBlockPrice(total_gdv, asking_price, num_units) ==
    IF num_units > 0 THEN total_gdv > asking_price * num_units ELSE 0 > asking_price

\* Check 5: avg_comp_price > per_unit_asking * 3, per_unit_asking being the
\* asking price without units
ComparablePriceMismatch(asking_price, num_units, comparables) ==
    /\ comparables # << >>
    /\ IF num_units > 0
       THEN SumPrices(comparables) * num_units > asking_price * 3 * Len(comparables)
       ELSE SumPrices(comparables) > asking_price * 3 * Len(comparables)

sanity_check_gdv(total_gdv, asking_price, num_units, comparables) ==
    LET units == IF num_units > 0 THEN num_units ELSE 1
        extreme == total_gdv > asking_price * 5
        high == ~extreme /\ total_gdv > asking_price * 3
        mismatch == ComparablePriceMismatch(asking_price, num_units, comparables)
        property_types == PropertyTypes(comparables)
        \* the ".1f" of total_gdv / asking_price
        ratio == FormatTenths(RoundHalfEven(total_gdv * 10, asking_price))
        check1 ==
            IF UnitExceedsBlockPrice(total_gdv, asking_price, num_units)
            THEN <<[check |-> "unit_exceeds_block_price",
                    severity |-> "error",
                    message |->
                        "Unit value £"
                        \o FormatThousands(IF num_units > 0
                                           THEN RoundHalfEven(total_gdv, num_units) ELSE 0)
                        \o " exceeds block asking price £" \o FormatThousands(asking_price)
                        \o ". Comparables likely include wrong property type (houses vs flats)."]>>
            ELSE << >>
        check2 ==
            IF extreme
            THEN <<[check |-> "gdv_ratio_extreme",
                    severity |-> "error",
                    message |-> "GDV £" \o FormatThousands(total_gdv) \o " is " \o ratio
                                \o "x asking price. Valuations are almost certainly incorrect."]>>
            ELSE << >>
        check3 ==
            IF high
            THEN <<[check |-> "gdv_ratio_high",
                    severity |-> "warning",
                    message |-> "GDV £" \o FormatThousands(total_gdv) \o " is " \o ratio
                                \o "x asking price. Verify valuations are reasonable for this area."]>>
            ELSE << >>
        check4 ==
            IF comparables # << >> /\ Cardinality(property_types) > 1 /\ "F" \in property_types
               /\ Len(NonFlatsOf(comparables)) > 0
            THEN <<[check |-> "mixed_property_types",
                    severity |-> "warning",
                    message |-> "Comparables include " \o ToString(Len(NonFlatsOf(comparables)))
                                \o " non-flat properties. This may skew valuations.",
                    property_types |-> property_types]>>
            ELSE << >>
        check5 ==
            IF mismatch
            THEN <<[check |-> "comparable_price_mismatch",
                    severity |-> "error",
                    message |->
                        "Average comparable £"
                        \o FormatThousands(RoundHalfEven(SumPrices(comparables), Len(comparables)))
                        \o " is "
                        \o FormatTenths(RoundHalfEven(SumPrices(comparables) * units * 10,
                                                      asking_price * Len(comparables)))
                        \o "x per-unit asking price (£"
                        \o FormatThousands(RoundHalfEven(asking_price, units))
                        \o "). Check if comparables are correct property type."]>>
            ELSE << >>
        issues == check1 \o check2 \o check5
        warnings == check3 \o check4
    IN \* total_gdv / asking_price and avg_comp_price / per_unit_asking in the messages
       IF (extreme \/ high \/ mismatch) /\ asking_price = 0
       THEN Raised("ZeroDivisionError")
       ELSE [passed |-> Len(issues) = 0,
             issues |-> issues,
             warnings |-> warnings,
             checks_performed |-> 5]

HIGH == "high"
MEDIUM == "medium"
LOW == "low"
INDICATIVE == "indicative"

\* adjustments.get(epc.current_rating, 1.0), in hundredths
EpcAdjustment(rating) ==
    CASE rating = "A" -> 105
      [] rating = "B" -> 103
      [] rating = "C" -> 100
      [] rating = "D" -> 97
      [] rating = "E" -> 94
      [] rating = "F" -> 90
      [] rating = "G" -> 85
      [] OTHER -> 100

\* sorted(prices)[len(prices) // 2] of a non-empty list of comparables
MedianPrice(comps) ==
    Sorted([i \in 1..Len(comps) |-> comps[i].price])[(Len(comps) \div 2) + 1]

\* confidence steps that ask for more than ten comparables
UnitConfidenceAboveTen(n) ==
    IF n > 10 THEN HIGH
    ELSE IF n >= 5 THEN MEDIUM
    ELSE IF n >= 2 THEN LOW
    ELSE INDICATIVE

\* the confidence steps of _value_unit over the number of relevant comparables
UnitConfidence(n) ==
    IF n >= 10 THEN HIGH
    ELSE IF n >= 5 THEN MEDIUM
    ELSE IF n >= 2 THEN LOW
    ELSE INDICATIVE

\* a variance with the sign turned
UnitVarianceNegative(n) == IF n >= 5 THEN -10 ELSE -15

\* the variance of _value_unit in hundredths: 0.10 with five comparables, else 0.15
UnitVariance(n) == IF n >= 5 THEN 10 ELSE 15

\* GDVCalculator._value_unit.  unit is the dict [id, beds, sqft], an absent
\* key being None; epc is None or an EPCRecord [floor_area, current_rating].
\* Areas in square feet are held in thousandths (sqm * 10.764 is sqm * 10764).
\* A ComparableSale has no attribute floor_area_sqm, so hasattr(comp,
\* 'floor_area_sqm') is False for every comparable, psf_values stays empty
\* and the value with a floor area is the comparable median as well.
value_unit(unit, comparables, epc) ==
    LET beds == unit.beds
        sqft ==
            IF Truthy(unit.sqft) THEN Some(unit.sqft[1] * 1000)
            ELSE IF epc # None /\ epc[1].floor_area # 0
            THEN Some(epc[1].floor_area * 10764)
            ELSE None
        unit_id == IF unit.id = None THEN "Unit" ELSE unit.id[1]
        flat_comps == FlatsOf(comparables)
        relevant_comps == SubSeq(flat_comps, 1, Min(10, Len(flat_comps)))
        base_value ==
            IF relevant_comps # << >> THEN MedianPrice(relevant_comps) ELSE 100000
        method ==
            IF relevant_comps # << >> THEN "comparable_median" ELSE "regional_estimate"
        estimated_value ==
            IF epc # None /\ epc[1].current_rating # ""
            THEN IntTimes(base_value, EpcAdjustment(epc[1].current_rating))
            ELSE base_value
        variance == UnitVariance(Len(relevant_comps))
    IN [unit_identifier |-> unit_id,
        beds |-> beds,
        sqft |-> sqft,
        epc_rating |-> IF epc # None THEN Some(epc[1].current_rating) ELSE None,
        estimated_value |-> estimated_value,
        value_range_low |-> IntTimes(estimated_value, 100 - variance),
        value_range_high |-> IntTimes(estimated_value, 100 + variance),
        confidence |-> UnitConfidence(Len(relevant_comps)),
        primary_method |-> method,
        price_per_sqft_used |-> None,
        comparables_used |-> << >>,
        avm_value |-> None,
        data_sources |-> <<"land_registry_ppd">>,
        valuation_notes |-> method \o " based on " \o ToString(Len(relevant_comps))
                            \o " comparables"]

\* GDVCalculator._calculate_overall_confidence
CalculateOverallConfidence(unit_valuations) ==
    LET C(i) == unit_valuations[i].confidence
        I == 1..Len(unit_valuations)
    IN IF \A i \in I : C(i) = HIGH THEN HIGH
       ELSE IF \E i \in I : C(i) = INDICATIVE THEN LOW
       ELSE IF \A i \in I : C(i) \in {HIGH, MEDIUM} THEN MEDIUM
       ELSE LOW

RECURSIVE MinPrice(_)
MinPrice(comps) ==
    IF Len(comps) = 1 THEN comps[1].price
    ELSE Min(Head(comps).price, MinPrice(Tail(comps)))

RECURSIVE MaxPrice(_)
MaxPrice(comps) ==
    IF Len(comps) = 1 THEN comps[1].price
    ELSE Max(Head(comps).price, MaxPrice(Tail(comps)))

\* GDVCalculator._summarise_comparables
SummariseComparables(comparables) ==
    IF comparables = << >>
    THEN [count |-> 0, message |-> "No comparables available"]
    ELSE [count |-> Len(comparables),
          price_range |-> "£" \o FormatThousands(MinPrice(comparables)) \o " - £"
                          \o FormatThousands(MaxPrice(comparables)),
          average |-> SumPrices(comparables) \div Len(comparables),
          median |-> MedianPrice(comparables)]

\* GDVCalculator._generate_confidence_statement
GenerateConfidenceStatement(unit_valuations, comparables) ==
    LET high_conf ==
            Cardinality({i \in 1..Len(unit_valuations) : unit_valuations[i].confidence = HIGH})
    IN "Valuation based on " \o ToString(Len(comparables))
       \o " comparable transactions from Land Registry\n        Price Paid data. "
       \o ToString(high_conf) \o " of " \o ToString(Len(unit_valuations))
       \o " unit valuations are\n        HIGH confidence. Values time-adjusted using UK House Price Index."

\* GDVCalculator._get_limitations
GetLimitations(confidence, comp_count) ==
    <<"Desktop valuation - does not replace RICS Red Book valuation",
      "Actual values may differ based on condition and specification">>
    \o (IF confidence \in {LOW, INDICATIVE}
        THEN <<"Limited comparable evidence - professional valuation recommended">>
        ELSE << >>)
    \o (IF comp_count < 10
        THEN <<"Based on " \o ToString(comp_count)
               \o " comparables - additional evidence recommended">>
        ELSE << >>)

\* the warning sign (U+26A0 U+FE0F) and the lightning sign (U+26A1) that go
\* before an issue and a warning, written here in ASCII
IssuePrefix == "(!) "
WarningPrefix == "(~) "

\* the prefix put before every issue or warning message
PrefixMessages(prefix, items) == [i \in 1..Len(items) |-> prefix \o items[i].message]

\* the sum taken before the last valuation is appended to the list
SumFieldBeforeLast(valuations, field) ==
    LET Part[n \in 0..Len(valuations)] ==
            IF n = 0 THEN 0 ELSE Part[n - 1] + valuations[n][field]
    IN IF valuations = << >> THEN 0 ELSE Part[Len(valuations) - 1]

RECURSIVE SumField(_, _)
\* sum(v.<field> for v in valuations)
SumField(valuations, field) ==
    IF valuations = << >> THEN 0
    ELSE Head(valuations)[field] + SumField(Tail(valuations), field)

RECURSIVE TotalSqft(_)
\* sum(u.get("sqft", 0) for u in units if u.get("sqft"))
TotalSqft(units) ==
    IF units = << >> THEN 0
    ELSE (IF Truthy(Head(units).sqft) THEN Head(units).sqft[1] ELSE 0) + TotalSqft(Tail(units))

\* every comparable, whatever its property type
AllComparables(comparables) == comparables

\* flat_comparables = [c for c in comparables if c.property_type == "F"]
FlatComparables(comparables) == FlatsOf(comparables)

\* GDVCalculator.calculate_block_gdv.  The two fields that read the clock
\* (data_freshness, report_date) are left out of the report.
calculate_block_gdv(postcode, units, asking_price, comparables, epcs, split_costs, monthly_rent_per_unit) ==
    LET flat_comparables == FlatComparables(comparables)
        unit_valuations ==
            [i \in 1..Len(units) |->
                value_unit(units[i], flat_comparables,
                           IF i <= Len(epcs) THEN Some(epcs[i]) ELSE None)]
        total_gdv == SumField(unit_valuations, "estimated_value")
        gdv_low == SumField(unit_valuations, "value_range_low")
        gdv_high == SumField(unit_valuations, "value_range_high")
        gross_uplift == total_gdv - asking_price
        gross_uplift_pct ==
            IF asking_price # 0 THEN RoundHalfEven(gross_uplift * 1000, asking_price) ELSE 0
        net_uplift == gross_uplift - split_costs
        net_uplift_pct ==
            IF asking_price # 0 THEN RoundHalfEven(net_uplift * 1000, asking_price) ELSE 0
        confidence == CalculateOverallConfidence(unit_valuations)
        sanity == sanity_check_gdv(total_gdv, asking_price, Len(units), flat_comparables)
        with_rent == Truthy(monthly_rent_per_unit) /\ Len(unit_valuations) > 0
        validation_results ==
            IF with_rent
            THEN [rental_yield_check |->
                      validate_unit_value_against_rent(
                          total_gdv \div Len(units), monthly_rent_per_unit[1], 5, 10)]
                 @@ sanity
            ELSE sanity
        limitations ==
            GetLimitations(confidence, Len(flat_comparables))
            \o PrefixMessages(IssuePrefix, sanity.issues)
            \o PrefixMessages(WarningPrefix, sanity.warnings)
    IN IF HasRaised(sanity) THEN sanity
       ELSE [property_address |-> "",
             postcode |-> postcode,
             title_number |-> None,
             agreed_price |-> None,
             refurbishment_budget |-> None,
             report_version |-> "1.0",
             asking_price |-> asking_price,
             total_units |-> Len(units),
             total_sqft |-> TotalSqft(units),
             unit_valuations |-> unit_valuations,
             total_gdv |-> total_gdv,
             gdv_range_low |-> gdv_low,
             gdv_range_high |-> gdv_high,
             gdv_confidence |-> confidence,
             gross_uplift |-> gross_uplift,
             gross_uplift_percent |-> gross_uplift_pct,
             title_split_costs |-> split_costs,
             total_costs |-> split_costs,
             net_uplift |-> net_uplift,
             net_uplift_percent |-> net_uplift_pct,
             net_profit_per_unit |->
                 IF units # << >> THEN net_uplift \div Len(units) ELSE 0,
             comparables_summary |-> SummariseComparables(flat_comparables),
             data_sources |-> <<"Land Registry Price Paid", "EPC Register">>,
             confidence_statement |->
                 GenerateConfidenceStatement(unit_valuations, flat_comparables),
             limitations |-> limitations,
             validation_results |-> validation_results]

(***************************************************************************)
(* analysis/valuation.py                                                   *)
(***************************************************************************)

\* REGIONAL_AVG_PER_SQFT.get(city, 150)
RegionalAvgPerSqft(city) ==
    CASE city = "liverpool" -> 150
      [] city = "manchester" -> 200
      [] city = "leeds" -> 180
      [] city = "sheffield" -> 160
      [] city = "newcastle" -> 155
      [] city = "wigan" -> 130
      [] city = "bolton" -> 125
      [] city = "bradford" -> 120
      [] city = "hull" -> 110
      [] city = "middlesbrough" -> 115
      [] OTHER -> 150

\* EPC_CONDITION_FACTORS.get(rating, 1.0), in hundredths
EpcConditionFactor(rating) ==
    CASE rating = "A" -> 105
      [] rating = "B" -> 103
      [] rating = "C" -> 100
      [] rating = "D" -> 97
      [] rating = "E" -> 94
      [] rating = "F" -> 90
      [] rating = "G" -> 85
      [] OTHER -> 100

\* sqm_to_sqft, the result in thousandths of a square foot
sqm_to_sqft(sqm) == sqm * 10764

\* estimate_unit_value.  epc is an EPCRecord [floor_area, current_rating] with
\* a floor area in whole square metres; avg_price_per_sqft is in whole pounds.
estimate_unit_value(epc, avg_price_per_sqft, confidence) ==
    IF epc.floor_area # 0
    THEN LET floor_area_sqft == sqm_to_sqft(epc.floor_area)
             \* base_value in thousandths of a pound
             base_value == floor_area_sqft * avg_price_per_sqft
             condition_factor == EpcConditionFactor(epc.current_rating)
             adjusted_value == MulDiv(base_value, condition_factor, 100000)
             variance == IF confidence \in {"high", "medium"} THEN 10 ELSE 15
         IN [floor_area_sqm |-> epc.floor_area,
             floor_area_sqft |-> floor_area_sqft,
             epc_rating |-> epc.current_rating,
             estimated_value |-> adjusted_value,
             value_low |-> IntTimes(adjusted_value, 100 - variance),
             value_high |-> IntTimes(adjusted_value, 100 + variance),
             confidence |-> confidence,
             method |-> "comparable_analysis",
             comparable_count |-> 0,
             adjustments |-> [base_value |-> base_value \div 1000,
                              epc_adjustment |-> (condition_factor - 100) * 10]]
    ELSE LET assumed_sqft == 500
             adjusted_value == assumed_sqft * avg_price_per_sqft
         IN [floor_area_sqm |-> epc.floor_area,
             floor_area_sqft |-> assumed_sqft * 1000,
             epc_rating |-> epc.current_rating,
             estimated_value |-> adjusted_value,
             value_low |-> IntTimes(adjusted_value, 85),
             value_high |-> IntTimes(adjusted_value, 115),
             confidence |-> "low",
             method |-> "comparable_analysis",
             comparable_count |-> 0,
             adjustments |-> [note |-> "Assumed average floor area"]]

\* the valuation estimate_values_rule_of_thumb appends for one EPC record
RuleOfThumbValuation(epc, avg_sqft) ==
    LET sqft == IF epc.floor_area > 0 THEN sqm_to_sqft(epc.floor_area) ELSE sqm_to_sqft(50)
        \* int(sqft * avg_sqft); the float of sqm_to_sqft(50) lies below 538.2
        base_value ==
            IF epc.floor_area > 0 THEN (sqft * avg_sqft) \div 1000
            ELSE FloatTrunc(avg_sqft, 5382, 10, <<3, 5, 9>>)
        factor == EpcConditionFactor(epc.current_rating)
        adjusted_value == IntTimes(base_value, factor)
    IN [floor_area_sqm |-> epc.floor_area,
        floor_area_sqft |-> sqft,
        epc_rating |-> epc.current_rating,
        estimated_value |-> adjusted_value,
        value_low |-> IntTimes(adjusted_value, 80),
        value_high |-> IntTimes(adjusted_value, 120),
        confidence |-> "low",
        method |-> "regional_average",
        comparable_count |-> 0,
        adjustments |-> [regional_avg_sqft |-> avg_sqft]]

\* estimate_values_rule_of_thumb.  city is property.city, None or a string
\* already in lower case.
estimate_values_rule_of_thumb(city, epcs) ==
    LET avg_sqft ==
            RegionalAvgPerSqft(IF city # None /\ city[1] # "" THEN city[1] ELSE "liverpool")
    IN [i \in 1..Len(epcs) |-> RuleOfThumbValuation(epcs[i], avg_sqft)]

(***************************************************************************)
(* analysis/cost_calculator.py                                             *)
(***************************************************************************)

Scenarios == {"min", "typical", "max"}

\* COST_MODEL[item]: the min, max and typical figure of a cost item
CostModel(item) ==
    CASE item = "solicitor_per_unit" -> [min |-> 300, max |-> 600, typical |-> 450]
      [] item = "title_plan_per_unit" -> [min |-> 100, max |-> 300, typical |-> 200]
      [] item = "lender_consent_fee" -> [min |-> 500, max |-> 2500, typical |-> 1000]
      [] item = "lender_legal_costs" -> [min |-> 500, max |-> 2000, typical |-> 1000]
      [] item = "valuation_per_unit" -> [min |-> 150, max |-> 350, typical |-> 250]
      [] item = "insurance_endorsement_per_unit" -> [min |-> 50, max |-> 100, typical |-> 75]

\* COST_MODEL["contingency_percent"]
ContingencyPercent == 10

\* get_land_registry_fee: the fee of the first band that holds the value
get_land_registry_fee(value) ==
    IF 0 <= value /\ value <= 80000 THEN 20
    ELSE IF 80001 <= value /\ value <= 100000 THEN 40
    ELSE IF 100001 <= value /\ value <= 200000 THEN 95
    ELSE IF 200001 <= value /\ value <= 500000 THEN 135
    ELSE IF 500001 <= value /\ value <= 1000000 THEN 270
    ELSE 455

RECURSIVE LandRegistryFees(_)
\* sum(get_land_registry_fee(v) for v in individual_values)
LandRegistryFees(individual_values) ==
    IF individual_values = << >> THEN 0
    ELSE get_land_registry_fee(Head(individual_values))
         + LandRegistryFees(Tail(individual_values))

\* contingency = int(subtotal * COST_MODEL["contingency_percent"] / 100)
Contingency(subtotal) == IntTrunc(subtotal * ContingencyPercent, 100)

\* estimate_split_costs
estimate_split_costs(num_units, individual_values, scenario) ==
    LET get_cost(item) == CostModel(item)[scenario]
        solicitor_fees == num_units * get_cost("solicitor_per_unit")
        title_plans == num_units * get_cost("title_plan_per_unit")
        valuations == num_units * get_cost("valuation_per_unit")
        insurance == num_units * get_cost("insurance_endorsement_per_unit")
        land_registry == LandRegistryFees(individual_values)
        lender_consent == get_cost("lender_consent_fee")
        lender_legal == get_cost("lender_legal_costs")
        subtotal == solicitor_fees + title_plans + valuations + insurance
                    + land_registry + lender_consent + lender_legal
        contingency == Contingency(subtotal)
        total == subtotal + contingency
    IN [solicitor_fees |-> solicitor_fees,
        title_plans |-> title_plans,
        valuations |-> valuations,
        insurance |-> insurance,
        land_registry |-> land_registry,
        lender_consent |-> lender_consent,
        lender_legal |-> lender_legal,
        subtotal |-> subtotal,
        contingency |-> contingency,
        total |-> total,
        per_unit |-> IF num_units > 0 THEN total \div num_units ELSE 0,
        breakdown |-> [solicitor_fees |-> solicitor_fees,
                       title_plans |-> title_plans,
                       valuations |-> valuations,
                       insurance |-> insurance,
                       land_registry |-> land_registry,
                       lender_consent |-> lender_consent,
                       lender_legal |-> lender_legal,
                       contingency |-> contingency]]

\* round(num / asking_price * 100, 1) if asking_price > 0 else 0, in tenths
PercentOfAsking(num, asking_price) ==
    IF asking_price > 0 THEN RoundHalfEven(num * 1000, asking_price) ELSE 0

\* str() of a percentage held in tenths: the float of round(.., 1), or the
\* int 0 that stands for it when the asking price is not positive
ShowPercent(tenths, asking_price) ==
    IF asking_price > 0 THEN FormatTenths(tenths) ELSE "0"

\* estimate_split_benefits
estimate_split_benefits(asking_price, num_units, individual_values, split_costs) ==
    LET aggregate_value == SumSeq(individual_values)
        gross_uplift == aggregate_value - asking_price
        gross_uplift_percent == PercentOfAsking(gross_uplift, asking_price)
        net_uplift == gross_uplift - split_costs.total
        net_uplift_percent == PercentOfAsking(net_uplift, asking_price)
        net_benefit_per_unit == IF num_units > 0 THEN net_uplift \div num_units ELSE 0
        cost_ratio == PercentOfAsking(split_costs.total, asking_price)
    IN [current_portfolio_value |-> asking_price,
        individual_values_aggregate |-> aggregate_value,
        gross_uplift |-> gross_uplift,
        gross_uplift_percent |-> gross_uplift_percent,
        transaction_costs |-> split_costs.total,
        net_uplift |-> net_uplift,
        net_uplift_percent |-> net_uplift_percent,
        net_benefit_per_unit |-> net_benefit_per_unit,
        meets_threshold |-> net_benefit_per_unit >= 2000,
        cost_ratio |-> cost_ratio,
        cost_ratio_acceptable |-> cost_ratio <= 30]

\* analyze_cost_benefit
analyze_cost_benefit(asking_price, num_units, individual_values) ==
    LET costs == estimate_split_costs(num_units, individual_values, "typical")
        benefits == estimate_split_benefits(asking_price, num_units, individual_values, costs)
        per_unit == FormatThousands(benefits.net_benefit_per_unit)
        uplift == ShowPercent(benefits.gross_uplift_percent, asking_price)
        decision ==
            IF benefits.meets_threshold /\ benefits.cost_ratio_acceptable
            THEN IF benefits.net_benefit_per_unit >= 5000
                 THEN [recommendation |-> "PROCEED",
                       rationale |-> "Strong opportunity with £" \o per_unit
                                     \o " net benefit per unit. Gross uplift of " \o uplift
                                     \o "% with acceptable cost ratio."]
                 ELSE [recommendation |-> "PROCEED",
                       rationale |-> "Viable opportunity with £" \o per_unit
                                     \o " net benefit per unit. "
                                     \o "Meets minimum threshold of £2,000 per unit."]
            ELSE IF benefits.gross_uplift_percent >= 150 /\ ~benefits.cost_ratio_acceptable
            THEN [recommendation |-> "REVIEW",
                  rationale |-> "Good gross uplift of " \o uplift \o "% but cost ratio of "
                                \o ShowPercent(benefits.cost_ratio, asking_price)
                                \o "% exceeds 3% threshold. Negotiate on price."]
            ELSE IF benefits.net_benefit_per_unit > 0 /\ benefits.net_benefit_per_unit < 2000
            THEN [recommendation |-> "REVIEW",
                  rationale |-> "Marginal benefit of £" \o per_unit \o " per unit. "
                                \o "May have strategic value but below standard threshold."]
            ELSE [recommendation |-> "DECLINE",
                  rationale |-> "Transaction costs exceed benefit. Net uplift: £"
                                \o FormatThousands(benefits.net_uplift)
                                \o ". Does not meet investment criteria."]
    IN [costs |-> costs,
        benefits |-> benefits,
        recommendation |-> decision.recommendation,
        rationale |-> decision.rationale]

\* max_price returned as it is
BreakEvenUnclamped(individual_values, num_units, target_net_per_unit) ==
    LET aggregate_value == SumSeq(individual_values)
        costs == estimate_split_costs(num_units, individual_values, "typical")
    IN aggregate_value - costs.total - (target_net_per_unit * num_units)

\* a maximum price that leaves the costs of the split out
BreakEvenBeforeCosts(individual_values, num_units, target_net_per_unit) ==
    Max(0, SumSeq(individual_values) - (target_net_per_unit * num_units))

\* calculate_break_even_price
calculate_break_even_price(individual_values, num_units, target_net_per_unit) ==
    LET aggregate_value == SumSeq(individual_values)
        costs == estimate_split_costs(num_units, individual_values, "typical")
        max_price == aggregate_value - costs.total - (target_net_per_unit * num_units)
    IN Max(0, max_price)

(***************************************************************************)
(* Calls of the valuation and cost functions                               *)
(***************************************************************************)

MaxFreeComps == 2
MaxBulkFlats == 10
MaxUnits == 2
MaxEpcs == 2
MaxNumUnits == 4
MaxValues == 4

\* a ComparableSale, reduced to the fields the valuation code reads.  The
\* field sale_date holds the days from the sale to the call,
\* (datetime.now() - sale_date).days; this is a sale of the day of the call.
ComparableSale(property_type, price) ==
    [property_type |-> property_type, price |-> price, sale_date |-> 0]

\* the sale made days_ago days before the call
SoldDaysAgo(sale, days_ago) == [sale EXCEPT !.sale_date = days_ago]

ComparableSales ==
    {ComparableSale("F", 75000), ComparableSale("F", 90000), ComparableSale("T", 345000)}

\* a flat sold 24 years (8766 days of 365.25) before the call
OldComparableSales == {SoldDaysAgo(ComparableSale("F", 80000), 8766)}

\* k sales of one flat at 80000
BulkFlats(k) == [i \in 1..k |-> ComparableSale("F", 80000)]
BulkCounts == {0, 4, MaxBulkFlats}

\* an EPCRecord, reduced to the two fields the valuation code reads
EPCRecord(floor_area, current_rating) ==
    [floor_area |-> floor_area, current_rating |-> current_rating]

EPCRecords == {EPCRecord(a, r) : a \in {0, 45, 73}, r \in {"", "A", "D", "G"}}
EpcLists ==
    {<< >>, <<EPCRecord(45, "A")>>, <<EPCRecord(0, "")>>,
     <<EPCRecord(73, "G"), EPCRecord(45, "D")>>}

\* a unit dict of calculate_block_gdv
UnitDicts ==
    {[id |-> None, beds |-> None, sqft |-> None],
     [id |-> Some("Flat 1"), beds |-> Some(2), sqft |-> Some(500)]}

\* Asking prices (here and in BlockAskingPrices) for which none of the ratios
\* reported below is an exact decimal tie, so that round() and ".1f" of the
\* float agree with RoundHalfEven of the exact ratio.
AskingPrices == {0, 110000, 319500}
GdvTotals == {0, 300000, 510000, 958500, 958501, 1597500, 1597501, 2070000}
SanityUnitCounts == {0, 1, 6}
EstimatedValues == {0, 52320, 80000, 104640, 345000}
MonthlyRents == {0, 436, 1000}
YieldRanges == {<<5, 10>>, <<8, 12>>}
PricesPerSqft == {150, 155, 200}
Confidences == {"high", "medium", "low"}
Cities == {None, Some("manchester"), Some("hull"), Some("london")}
IndividualValues == {75000, 93750, 150000, 250000}
BlockAskingPrices == {0, 182500, 219500, 285000, 425000}
TargetsPerUnit == {0, 2000, 50000, 200000}

RentCall ==
    \E v \in EstimatedValues, m \in MonthlyRents, y \in YieldRanges :
        /\ fn = "validate_unit_value_against_rent"
        /\ args = [estimated_value |-> v, monthly_rent |-> m,
                   min_yield |-> y[1], max_yield |-> y[2]]

SanityCall ==
    \E g \in GdvTotals, a \in AskingPrices, n \in SanityUnitCounts,
       free \in SeqUpTo(ComparableSales, MaxFreeComps), k \in BulkCounts :
        /\ fn = "sanity_check_gdv"
        /\ args = [total_gdv |-> g, asking_price |-> a, num_units |-> n,
                   comparables |-> free \o BulkFlats(k)]

BlockGdvCall ==
    \E units \in SeqUpTo(UnitDicts, MaxUnits), a \in AskingPrices,
       free \in SeqUpTo(ComparableSales, MaxFreeComps), k \in BulkCounts,
       epcs \in EpcLists, c \in {0, 6666}, rent \in {None, Some(436)} :
        /\ fn = "calculate_block_gdv"
        /\ args = [postcode |-> "L4 0TH", units |-> units, asking_price |-> a,
                   comparables |-> free \o BulkFlats(k), epcs |-> epcs,
                   split_costs |-> c, monthly_rent_per_unit |-> rent]

\* GDVCalculator._value_unit is called by calculate_block_gdv only, with the
\* flat comparables and the EPC record of the unit's position, if any
ValueUnitCall ==
    \E unit \in UnitDicts,
       free \in SeqUpTo(ComparableSales \cup OldComparableSales, MaxFreeComps),
       k \in BulkCounts, epc \in {None} \cup {Some(e) : e \in EPCRecords} :
        /\ fn = "_value_unit"
        /\ args = [unit |-> unit, comparables |-> FlatComparables(free \o BulkFlats(k)),
                   epc |-> epc]

UnitValueCall ==
    \E epc \in EPCRecords, p \in PricesPerSqft, c \in Confidences :
        /\ fn = "estimate_unit_value"
        /\ args = [epc |-> epc, avg_price_per_sqft |-> p, confidence |-> c]

RuleOfThumbCall ==
    \E city \in Cities, epcs \in SeqUpTo(EPCRecords, MaxEpcs) :
        /\ fn = "estimate_values_rule_of_thumb"
        /\ args = [city |-> city, epcs |-> epcs]

SplitCostsCall ==
    \E n \in 0..MaxNumUnits, vs \in SeqUpTo(IndividualValues, MaxValues), sc \in Scenarios :
        /\ fn = "estimate_split_costs"
        /\ args = [num_units |-> n, individual_values |-> vs, scenario |-> sc]

SplitBenefitsCall ==
    \E a \in BlockAskingPrices, n \in 0..MaxNumUnits,
       vs \in SeqUpTo(IndividualValues, MaxValues), sc \in Scenarios :
        /\ fn = "estimate_split_benefits"
        /\ args = [asking_price |-> a, num_units |-> n, individual_values |-> vs,
                   split_costs |-> estimate_split_costs(n, vs, sc)]

CostBenefitCall ==
    \E a \in BlockAskingPrices, n \in 0..MaxNumUnits,
       vs \in SeqUpTo(IndividualValues, MaxValues) :
        /\ fn = "analyze_cost_benefit"
        /\ args = [asking_price |-> a, num_units |-> n, individual_values |-> vs]

BreakEvenCall ==
    \E vs \in SeqUpTo(IndividualValues, MaxValues), n \in 0..MaxNumUnits,
       t \in TargetsPerUnit :
        /\ fn = "calculate_break_even_price"
        /\ args = [individual_values |-> vs, num_units |-> n, target_net_per_unit |-> t]

InitVal ==
    /\ pc = "call"
    /\ result = None
    /\ history = << >>
    /\ ServicesAtRest
    /\ \/ RentCall
       \/ SanityCall
       \/ BlockGdvCall
       \/ ValueUnitCall
       \/ UnitValueCall
       \/ RuleOfThumbCall
       \/ SplitCostsCall
       \/ SplitBenefitsCall
       \/ CostBenefitCall
       \/ BreakEvenCall

ValidateUnitValueAgainstRent ==
    /\ pc = "call"
    /\ fn = "validate_unit_value_against_rent"
    /\ pc' = "done"
    /\ result' =
           validate_unit_value_against_rent(args.estimated_value, args.monthly_rent,
               args.min_yield, args.max_yield)
    /\ UNCHANGED <<fn, args, history, services>>

SanityCheckGdv ==
    /\ pc = "call"
    /\ fn = "sanity_check_gdv"
    /\ pc' = "done"
    /\ result' =
           sanity_check_gdv(args.total_gdv, args.asking_price, args.num_units,
               args.comparables)
    /\ UNCHANGED <<fn, args, history, services>>

CalculateBlockGdv ==
    /\ pc = "call"
    /\ fn = "calculate_block_gdv"
    /\ pc' = "done"
    /\ result' =
           calculate_block_gdv(args.postcode, args.units, args.asking_price,
               args.comparables, args.epcs, args.split_costs,
               args.monthly_rent_per_unit)
    /\ UNCHANGED <<fn, args, history, services>>

ValueUnit ==
    /\ pc = "call"
    /\ fn = "_value_unit"
    /\ pc' = "done"
    /\ result' = value_unit(args.unit, args.comparables, args.epc)
    /\ UNCHANGED <<fn, args, history, services>>

EstimateUnitValue ==
    /\ pc = "call"
    /\ fn = "estimate_unit_value"
    /\ pc' = "done"
    /\ result' = estimate_unit_value(args.epc, args.avg_price_per_sqft, args.confidence)
    /\ UNCHANGED <<fn, args, history, services>>

EstimateValuesRuleOfThumb ==
    /\ pc = "call"
    /\ fn = "estimate_values_rule_of_thumb"
    /\ pc' = "done"
    /\ result' = estimate_values_rule_of_thumb(args.city, args.epcs)
    /\ UNCHANGED <<fn, args, history, services>>

EstimateSplitCosts ==
    /\ pc = "call"
    /\ fn = "estimate_split_costs"
    /\ pc' = "done"
    /\ result' = estimate_split_costs(args.num_units, args.individual_values, args.scenario)
    /\ UNCHANGED <<fn, args, history, services>>

EstimateSplitBenefits ==
    /\ pc = "call"
    /\ fn = "estimate_split_benefits"
    /\ pc' = "done"
    /\ result' =
           estimate_split_benefits(args.asking_price, args.num_units,
               args.individual_values, args.split_costs)
    /\ UNCHANGED <<fn, args, history, services>>

AnalyzeCostBenefit ==
    /\ pc = "call"
    /\ fn = "analyze_cost_benefit"
    /\ pc' = "done"
    /\ result' = analyze_cost_benefit(args.asking_price, args.num_units, args.individual_values)
    /\ UNCHANGED <<fn, args, history, services>>

CalculateBreakEvenPrice ==
    /\ pc = "call"
    /\ fn = "calculate_break_even_price"
    /\ pc' = "done"
    /\ result' =
           calculate_break_even_price(args.individual_values, args.num_units,
               args.target_net_per_unit)
    /\ UNCHANGED <<fn, args, history, services>>

NextVal ==
    \/ ValidateUnitValueAgainstRent
    \/ SanityCheckGdv
    \/ CalculateBlockGdv
    \/ ValueUnit
    \/ EstimateUnitValue
    \/ EstimateValuesRuleOfThumb
    \/ EstimateSplitCosts
    \/ EstimateSplitBenefits
    \/ AnalyzeCostBenefit
    \/ CalculateBreakEvenPrice

SpecVal == InitVal /\ [][NextVal]_vars

\* the pending call has returned from function f
Returned(f) == pc = "done" /\ fn = f

(***************************************************************************)
(* Properties of the valuation and cost functions                          *)
(***************************************************************************)

\* the three conditions of an issue: total_gdv / num_units above the asking
\* price, total_gdv above five times the asking price, or comparables whose
\* average price is above three times the asking price per unit (the asking
\* price itself when there are no units)
IssueExpected(total_gdv, asking_price, num_units, comparables) ==
    \/ num_units > 0 /\ total_gdv > asking_price * num_units
    \/ total_gdv > 5 * asking_price
    \/ /\ comparables # << >>
       /\ SumPrices(comparables) * (IF num_units > 0 THEN num_units ELSE 1)
              > 3 * asking_price * Len(comparables)

\* C2: sanity_check_gdv returns passed = False exactly when its issues list is
\* non-empty, and an issue is recorded exactly when one of the three
\* conditions holds; in every other case it returns passed = True with zero
\* issues.
SanityPassedIffNoIssue ==
    Returned("sanity_check_gdv") =>
        /\ ~HasRaised(result)
        /\ result.passed = (result.issues = << >>)
        /\ (result.issues # << >>)
               = IssueExpected(args.total_gdv, args.asking_price, args.num_units,
                               args.comparables)

\* the lists of comparables that differ from comparables in non-flat sales only
NonFlatVariants(comparables) ==
    {FlatsOf(comparables),
     <<ComparableSale("D", 500000)>> \o comparables,
     comparables \o <<ComparableSale("S", 1)>>,
     [i \in 1..Len(comparables) |->
         IF IsFlat(comparables[i]) THEN comparables[i] ELSE ComparableSale("O", 999999)]}

\* C3: two calls of calculate_block_gdv that differ only in the non-flat
\* comparables supplied return the same report: unit valuations, GDV totals
\* and ranges, confidence and validation results.
NonFlatsNeverInfluence ==
    Returned("calculate_block_gdv") =>
        \A other \in NonFlatVariants(args.comparables) :
            calculate_block_gdv(args.postcode, args.units, args.asking_price, other,
                                args.epcs, args.split_costs, args.monthly_rent_per_unit)
                = result

\* flats were valued by the median of the flat sales although a non-flat sale
\* was supplied
ValuedBesideNonFlats ==
    /\ Returned("calculate_block_gdv")
    /\ NonFlatsOf(args.comparables) # << >>
    /\ FlatsOf(args.comparables) # << >>
    /\ ~HasRaised(result)
    /\ result.unit_valuations # << >>
    /\ result.unit_valuations[1].primary_method = "comparable_median"

\* C4: validate_unit_value_against_rent returns valid = False only when rent
\* and value are positive and 12 * monthly_rent / estimated_value is below
\* min_yield, then with issue value_too_high and corrected_value =
\* annual_rent / min_yield (345000 at rent 436 gives a value within 80000 to
\* 110000); a rent or value <= 0 gives valid with skipped; a yield above
\* max_yield gives valid with the note conservative_valuation; a yield within
\* the range gives valid.
RentValidationCases ==
    Returned("validate_unit_value_against_rent") =>
        LET value == args.estimated_value
            annual == 12 * args.monthly_rent
            present == args.monthly_rent > 0 /\ value > 0
            below == present /\ annual * 100 < args.min_yield * value
            above == present /\ annual * 100 > args.max_yield * value
        IN /\ result.valid = ~below
           /\ below => /\ result.issue = "value_too_high"
                       /\ result.corrected_value * args.min_yield = annual * 100
           /\ ~present => "skipped" \in DOMAIN result /\ result.skipped
           /\ above => "note" \in DOMAIN result /\ result.note = "conservative_valuation"
           /\ (value = 345000 /\ args.monthly_rent = 436 /\ args.min_yield = 5)
                  => /\ ~result.valid
                     /\ result.corrected_value >= 80000
                     /\ result.corrected_value <= 110000

\* a value of 345000 at a rent of 436 was flagged and corrected to 104640
RentCorrectedValue ==
    /\ Returned("validate_unit_value_against_rent")
    /\ args.estimated_value = 345000
    /\ args.monthly_rent = 436
    /\ ~result.valid
    /\ result.issue = "value_too_high"
    /\ result.corrected_value = 104640

\* C5: for every input with a unit count of zero or an asking price of zero,
\* sanity_check_gdv, estimate_split_costs and estimate_split_benefits return
\* a result instead of raising a division-by-zero error.
NoDivisionByZero ==
    /\ (Returned("sanity_check_gdv") /\ (args.num_units = 0 \/ args.asking_price = 0))
           => ~HasRaised(result)
    /\ (Returned("estimate_split_costs") /\ args.num_units = 0) => ~HasRaised(result)
    /\ (Returned("estimate_split_benefits") /\ (args.num_units = 0 \/ args.asking_price = 0))
           => ~HasRaised(result)

\* C6: every cost estimate of estimate_split_costs has total = subtotal +
\* contingency and contingency = round(subtotal * 0.10).
ContingencyRounded ==
    Returned("estimate_split_costs") =>
        /\ result.total = result.subtotal + result.contingency
        /\ result.contingency = RoundHalfEven(result.subtotal, 10)

\* the decision table over the exact ratios: net benefit per unit = (sum of
\* values - asking price - total costs) / units, cost ratio = total costs /
\* asking price, gross uplift = (sum of values - asking price) / asking price
TableDecision(asking_price, num_units, individual_values, total_costs) ==
    LET gross == SumSeq(individual_values) - asking_price
        per_unit == (gross - total_costs) \div num_units
        ratio_within == total_costs * 100 <= 3 * asking_price
    IN IF per_unit >= 2000 /\ ratio_within THEN "PROCEED"
       ELSE IF gross * 100 >= 15 * asking_price /\ ~ratio_within THEN "REVIEW"
       ELSE IF 0 < per_unit /\ per_unit < 2000 THEN "REVIEW"
       ELSE "DECLINE"

\* C7: analyze_cost_benefit applies the decision table in order: PROCEED when
\* net benefit per unit >= 2000 and cost ratio <= 3%, REVIEW when gross uplift
\* >= 15% and cost ratio > 3%, REVIEW when 0 < net benefit per unit < 2000,
\* DECLINE otherwise; the result is PROCEED exactly when net benefit per unit
\* >= 2000 and the cost ratio is <= 3%.
CostBenefitDecisionTable ==
    (Returned("analyze_cost_benefit") /\ args.asking_price > 0 /\ args.num_units > 0) =>
        result.recommendation
            = TableDecision(args.asking_price, args.num_units, args.individual_values,
                            result.costs.total)

\* C8: calculate_break_even_price returns the sum of the individual values -
\* typical costs.total - target_net_per_unit * num_units, clamped at 0, and
\* so never a negative price.
BreakEvenClamped ==
    Returned("calculate_break_even_price") =>
        LET max_price ==
                SumSeq(args.individual_values)
                - estimate_split_costs(args.num_units, args.individual_values, "typical").total
                - args.target_net_per_unit * args.num_units
        IN /\ result >= 0
           /\ result = IF max_price > 0 THEN max_price ELSE 0

\* a target above the aggregate value was clamped to a price of 0
BreakEvenAtZero ==
    /\ Returned("calculate_break_even_price")
    /\ args.individual_values # << >>
    /\ args.target_net_per_unit * args.num_units > SumSeq(args.individual_values)
    /\ result = 0

\* value_range_low <= estimated_value <= value_range_high
WithinRange(low, estimated, high) == low <= estimated /\ estimated <= high

\* C9: every UnitValuation of GDVCalculator._value_unit, estimate_unit_value
\* and estimate_values_rule_of_thumb has value_range_low <= estimated_value
\* <= value_range_high.
EstimateWithinRange ==
    /\ Returned("_value_unit") =>
           WithinRange(result.value_range_low, result.estimated_value,
                       result.value_range_high)
    /\ (Returned("calculate_block_gdv") /\ ~HasRaised(result)) =>
           \A i \in 1..Len(result.unit_valuations) :
               WithinRange(result.unit_valuations[i].value_range_low,
                           result.unit_valuations[i].estimated_value,
                           result.unit_valuations[i].value_range_high)
    /\ Returned("estimate_unit_value") =>
           WithinRange(result.value_low, result.estimated_value, result.value_high)
    /\ Returned("estimate_values_rule_of_thumb") =>
           \A i \in 1..Len(result) :
               WithinRange(result[i].value_low, result[i].estimated_value,
                           result[i].value_high)

\* a unit valued from comparables with an EPC adjustment lies strictly inside
\* its range
UnitStrictlyInsideRange ==
    /\ Returned("_value_unit")
    /\ args.comparables # << >>
    /\ args.epc # None
    /\ result.estimated_value # MedianPrice(args.comparables)
    /\ result.value_range_low < result.estimated_value
    /\ result.estimated_value < result.value_range_high

\* C10: a unit valued with at least 10 comparables, its floor area not taken
\* from a typical-by-bedroom fallback, has confidence HIGH.
TenComparablesHighConfidence ==
    /\ (Returned("_value_unit") /\ Len(args.comparables) >= 10) =>
           result.confidence = HIGH
    /\ (Returned("calculate_block_gdv") /\ ~HasRaised(result)
            /\ Len(FlatsOf(args.comparables)) >= 10) =>
           \A i \in 1..Len(result.unit_valuations) :
               result.unit_valuations[i].confidence = HIGH

\* a unit whose floor area comes from its EPC record was valued with
\* ten comparables and has confidence HIGH
TenComparablesValued ==
    /\ Returned("_value_unit")
    /\ Len(args.comparables) >= 10
    /\ args.unit.sqft = None
    /\ result.sqft # None
    /\ result.valuation_notes = "comparable_median based on 10 comparables"
    /\ result.confidence = HIGH

\* the sum of one field over the unit valuations a report lists
ListedTotal(report, field) ==
    LET Part[n \in 0..Len(report.unit_valuations)] ==
            IF n = 0 THEN 0 ELSE Part[n - 1] + report.unit_valuations[n][field]
    IN Part[Len(report.unit_valuations)]

\* C12: in every report calculate_block_gdv returns, total_gdv is the sum of
\* the estimated_value, gdv_range_low the sum of the value_range_low and
\* gdv_range_high the sum of the value_range_high of the unit valuations the
\* report lists, one per unit supplied.
GdvTotalsAreUnitSums ==
    (Returned("calculate_block_gdv") /\ ~HasRaised(result)) =>
        /\ Len(result.unit_valuations) = Len(args.units)
        /\ result.total_units = Len(args.units)
        /\ result.total_gdv = ListedTotal(result, "estimated_value")
        /\ result.gdv_range_low = ListedTotal(result, "value_range_low")
        /\ result.gdv_range_high = ListedTotal(result, "value_range_high")

\* a report of two units valued differently, its totals strictly ordered
TwoUnitsSummed ==
    /\ Returned("calculate_block_gdv")
    /\ ~HasRaised(result)
    /\ Len(result.unit_valuations) = 2
    /\ result.unit_valuations[1].estimated_value
           # result.unit_valuations[2].estimated_value
    /\ result.unit_valuations[2].estimated_value > 0
    /\ result.total_gdv = result.unit_valuations[1].estimated_value
                              + result.unit_valuations[2].estimated_value
    /\ result.gdv_range_low < result.total_gdv
    /\ result.total_gdv < result.gdv_range_high

\* the checks named by the entries of a list of issues or warnings
ChecksIn(entries) == {entries[i].check : i \in 1..Len(entries)}

\* C13: sanity_check_gdv returns for every input; a total GDV above 3 times
\* but not above 5 times the asking price gives the warning gdv_ratio_high
\* and no ratio issue; comparables holding a flat and a non-flat give the
\* warning mixed_property_types, comparables that are all flats do not; and
\* neither warning makes the check fail.
AdvisoryConditionsOnlyWarn ==
    Returned("sanity_check_gdv") =>
        /\ ~HasRaised(result)
        /\ (args.total_gdv > 3 * args.asking_price
               /\ ~(args.total_gdv > 5 * args.asking_price))
              => /\ "gdv_ratio_high" \in ChecksIn(result.warnings)
                 /\ "gdv_ratio_extreme" \notin ChecksIn(result.issues)
        /\ (FlatsOf(args.comparables) # << >> /\ NonFlatsOf(args.comparables) # << >>)
              => "mixed_property_types" \in ChecksIn(result.warnings)
        /\ NonFlatsOf(args.comparables) = << >>
              => "mixed_property_types" \notin ChecksIn(result.warnings)
        /\ ChecksIn(result.issues) \cap {"gdv_ratio_high", "mixed_property_types"} = {}
        /\ result.passed = (result.issues = << >>)

(***************************************************************************)
(* data_sources/land_registry.py                                           *)
(***************************************************************************)

\* (1 + annual_appreciation) ** years at the default 3%, in millionths, for
\* the sale ages of the modelled comparables: 1.03^0 and 1.03^24
Appreciation(days_ago) ==
    CASE days_ago = 0 -> 1000000
      [] days_ago = 8766 -> 2032794

\* calculate_time_adjusted_price with the default appreciation:
\* int(sale_price * 1.03 ** years), the product taken in parts that stay
\* within 32 bits
calculate_time_adjusted_price(sale_price, days_ago) ==
    LET factor == Appreciation(days_ago)
        whole == factor \div 1000000
        thousandths == (factor % 1000000) \div 1000
        millionths == factor % 1000
    IN sale_price * whole
       + (sale_price * thousandths + (sale_price * millionths) \div 1000) \div 1000

\* sorted(prices)[len(prices) // 2] of the time-adjusted prices of a
\* non-empty list of comparables
TimeAdjustedMedian(comps) ==
    Sorted([i \in 1..Len(comps) |->
               calculate_time_adjusted_price(comps[i].price, comps[i].sale_date)])
        [(Len(comps) \div 2) + 1]

\* C20: the unit value _value_unit returns is cross-checked against the
\* time-adjusted median of its comparables: a value below 50% of the median
\* is replaced by the median and a value above 200% of it is capped at 150%
\* of the median, the method label recording the substitution, so that no
\* returned value lies below 50% or above 200% of the median.
UnitValueCrossChecked ==
    (Returned("_value_unit") /\ args.comparables # << >>) =>
        LET median == TimeAdjustedMedian(SubSeq(args.comparables, 1,
                                                Min(10, Len(args.comparables))))
        IN /\ 2 * result.estimated_value >= median
           /\ result.estimated_value <= 2 * median

(***************************************************************************)
(* data_sources/epc.py, analysis/scoring.py                                *)
(*                                                                         *)
(* Confidences (floats between 0 and 1) are integers in hundredths.        *)
(***************************************************************************)

\* rating_scores.get(rating): 0 stands for a rating that is not a key
RatingScore(rating) ==
    CASE rating = "A" -> 7 [] rating = "B" -> 6 [] rating = "C" -> 5
      [] rating = "D" -> 4 [] rating = "E" -> 3 [] rating = "F" -> 2
      [] rating = "G" -> 1 [] OTHER -> 0

\* score_ratings[score], the inverse of rating_scores
ScoreRating(score) ==
    CASE score = 7 -> "A" [] score = 6 -> "B" [] score = 5 -> "C"
      [] score = 4 -> "D" [] score = 3 -> "E" [] score = 2 -> "F"
      [] score = 1 -> "G"

\* calculate_avg_epc_rating: the rating of the rounded mean score of the
\* records that carry a rating, and the share of such records as the pair
\* <<count, len(epcs)>>
calculate_avg_epc_rating(epcs) ==
    LET rated == SelectSeq(epcs, LAMBDA epc : RatingScore(epc.current_rating) # 0)
        Total[n \in 0..Len(rated)] ==
            IF n = 0 THEN 0 ELSE Total[n - 1] + RatingScore(rated[n].current_rating)
        count == Len(rated)
        rounded == Max(1, Min(7, RoundHalfEven(Total[count], count)))
    IN IF epcs = << >> \/ count = 0 THEN <<"", <<0, 1>>>>
       ELSE <<ScoreRating(rounded), <<count, Len(epcs)>>>>

\* 1. Title/Tenure: min(tenure_score, 30)
TenureScore(analysis) ==
    LET tenure == analysis.tenure_analysis
        tenure_score ==
            (IF tenure.likely_tenure = "freehold"
             THEN 20 + (IF tenure.tenure_confidence > 80 THEN 5 ELSE 0)
             ELSE IF tenure.likely_tenure = "unknown" THEN 10 ELSE 0)
            + (IF tenure.single_title_likely THEN 5 ELSE 0)
    IN Min(tenure_score, 30)

\* 2. Financial upside: min(financial_score, 25)
FinancialScore(analysis) ==
    LET uplift == analysis.financial_analysis.estimated_gross_uplift_percent
        banded ==
            IF Truthy(uplift)
            THEN (IF uplift[1] >= 30 THEN 25
                  ELSE IF uplift[1] >= 20 THEN 20
                  ELSE IF uplift[1] >= 15 THEN 15
                  ELSE IF uplift[1] >= 10 THEN 10
                  ELSE IF uplift[1] >= 5 THEN 5
                  ELSE 0)
            ELSE 0
        financial_score ==
            banded + (IF analysis.financial_analysis.price_assessment = "undervalued"
                      THEN 5 ELSE 0)
    IN Min(financial_score, 25)

\* 3. Condition/Refurb opportunity: min(condition_score, 20)
ConditionScore(analysis, epcs) ==
    LET condition == analysis.condition_analysis
        avg_rating == calculate_avg_epc_rating(epcs)[1]
        condition_score ==
            (IF condition.refurb_needed
             THEN 10 + (IF condition.refurb_scope \in {"medium", "heavy"} THEN 5
                        ELSE IF condition.refurb_scope = "light" THEN 3
                        ELSE 0)
             ELSE 0)
            + (IF epcs # << >>
               THEN (IF avg_rating \in {"E", "F", "G"} THEN 5
                     ELSE IF avg_rating = "D" THEN 3
                     ELSE 0)
               ELSE 0)
    IN Min(condition_score, 20)

\* the risk score deducted from 15 and not floored
RiskScoreUnfloored(analysis) ==
    15 - Len(analysis.risk_analysis.red_flags) * 5
       - Len(analysis.risk_analysis.amber_flags) * 2
       - Len(analysis.title_split_viability.blockers) * 3

\* 4. Risk factors: max(risk_score, 0)
RiskScore(analysis) ==
    LET risk_score ==
            15 - Len(analysis.risk_analysis.red_flags) * 5
               - Len(analysis.risk_analysis.amber_flags) * 2
               - Len(analysis.title_split_viability.blockers) * 3
    IN Max(risk_score, 0)

\* 5. Data confidence: min(confidence_score, 10)
ConfidenceScore(property, analysis, epcs, comparables) ==
    LET unit_confidence == analysis.unit_analysis.unit_confidence
        tenure_confidence == analysis.tenure_analysis.tenure_confidence
        estimated_units ==
            IF property.estimated_units # 0 THEN property.estimated_units
            ELSE analysis.unit_analysis.estimated_units
        confidence_score ==
            (IF unit_confidence > 80 THEN 3 ELSE IF unit_confidence > 60 THEN 1 ELSE 0)
            + (IF tenure_confidence > 80 THEN 3 ELSE IF tenure_confidence > 60 THEN 1 ELSE 0)
            + (IF Len(epcs) >= estimated_units THEN 2 ELSE IF Len(epcs) > 0 THEN 1 ELSE 0)
            + (IF Len(comparables) >= 5 THEN 2 ELSE IF Len(comparables) >= 3 THEN 1 ELSE 0)
    IN Min(confidence_score, 10)

\* calculate_opportunity_score; epcs and comparables are the lists after
\* "epcs or []" and "comparables or []"
calculate_opportunity_score(property, analysis, epcs, comparables) ==
    LET score ==
            TenureScore(analysis) + FinancialScore(analysis)
            + ConditionScore(analysis, epcs) + RiskScore(analysis)
            + ConfidenceScore(property, analysis, epcs, comparables)
    IN Min(score, 100)

\* 2^k modulo m
RECURSIVE Pow2Mod(_, _)
Pow2Mod(k, m) == IF k = 0 THEN 1 % m ELSE (2 * Pow2Mod(k - 1, m)) % m

\* The float product x * c of a score x >= 0 and the factor c = n/5 (0.6 or
\* 0.4).  The float that stands for c is c + sigma * 2^-53 / 5 (sigma = -1
\* for 0.6, +1 for 0.4), and the product is that real number rounded to 53
\* bits, ties to even.  With e the exponent of the product and D = 5 * 2^(e+2),
\* the part of the real product below one unit in the last place 2^(e-52) is
\* F / D; it is rounded to R units.  The result is the pair <<e, err>>: the
\* float product is n*x/5 + (err / 5) * 2^(e-52).
FloatProductError(x, n, sigma) ==
    LET e == Log2Floor((4 * n * x) \div 5) - 2
        r == (n * x * Pow2Mod(52 - e, 5)) % 5
        F == r * 2^(e + 2) + sigma * 2 * x
        D == 5 * 2^(e + 2)
        even == (((n * x) % 10) * Pow2Mod(52 - e, 10) - r) % 10 = 0
        R == IF 2 * F < D THEN 0
             ELSE IF 2 * F = D THEN (IF even THEN 0 ELSE 1)
             ELSE IF 2 * F < 3 * D THEN 1
             ELSE IF 2 * F = 3 * D THEN (IF even THEN 2 ELSE 1)
             ELSE 2
    IN IF x = 0 THEN <<0, 0>> ELSE <<e, 5 * R - r>>

\* combined >= threshold for the float
\* combined = (opportunity_score * 0.6) + (title_split_score * 0.4).
\* Away from the threshold the rounding errors cannot decide; at it, the
\* float sum reaches the threshold unless the two product errors, in units
\* of 2^-54 / 5, lie more than half a unit in the last place below it.
CombinedAtLeast(opportunity_score, title_split_score, threshold) ==
    LET exact == 6 * opportunity_score + 4 * title_split_score
        a == FloatProductError(opportunity_score, 3, -1)
        b == FloatProductError(title_split_score, 2, 1)
    IN IF exact # 10 * threshold THEN exact > 10 * threshold
       ELSE a[2] * 2^(a[1] + 2) + b[2] * 2^(b[1] + 2)
                >= -(5 * 2^(Log2Floor(threshold) + 1))

\* combined >= threshold for the real number 0.6 * opportunity + 0.4 * title
CombinedAtLeastExact(opportunity_score, title_split_score, threshold) ==
    6 * opportunity_score + 4 * title_split_score >= 10 * threshold

get_recommendation_tier(opportunity_score, title_split_score, has_blockers) ==
    IF has_blockers THEN "D"
    ELSE IF CombinedAtLeast(opportunity_score, title_split_score, 75) THEN "A"
    ELSE IF CombinedAtLeast(opportunity_score, title_split_score, 55) THEN "B"
    ELSE IF CombinedAtLeast(opportunity_score, title_split_score, 35) THEN "C"
    ELSE "D"

(***************************************************************************)
(* analysis/impact_rules.py                                                *)
(***************************************************************************)

BLOCKER == "blocker"
ImpactType ==
    {BLOCKER, "major_neg", "minor_neg", "neutral", "minor_pos", "major_pos", "enabler"}

\* an Impact, reduced to the fields calculate_total_impact reads
Impact(impact_type, impact_score, headline, cost_impact, time_impact_weeks) ==
    [impact_type |-> impact_type,
     impact_score |-> impact_score,
     headline |-> headline,
     cost_impact |-> cost_impact,
     time_impact_weeks |-> time_impact_weeks]

\* total_time_weeks = total_time_weeks + impact.time_impact_weeks
AddWeeks(total_time_weeks, time_impact_weeks) == total_time_weeks + time_impact_weeks

\* total_time_weeks = max(total_time_weeks, impact.time_impact_weeks)
LongestWeeks(total_time_weeks, time_impact_weeks) == Max(total_time_weeks, time_impact_weeks)

\* calculate_total_impact: Loop[n] is the state of the four accumulators
\* after the first n impacts
calculate_total_impact(impacts) ==
    LET Loop[n \in 0..Len(impacts)] ==
            IF n = 0
            THEN [total_score |-> 0, blockers |-> << >>, total_cost |-> 0,
                  total_time_weeks |-> 0]
            ELSE LET before == Loop[n - 1]
                     impact == impacts[n]
                 IN [total_score |-> before.total_score + impact.impact_score,
                     blockers |->
                         IF impact.impact_type = BLOCKER
                         THEN Append(before.blockers, impact.headline)
                         ELSE before.blockers,
                     total_cost |->
                         IF Truthy(impact.cost_impact)
                         THEN before.total_cost + impact.cost_impact[1]
                         ELSE before.total_cost,
                     total_time_weeks |->
                         IF Truthy(impact.time_impact_weeks)
                         THEN LongestWeeks(before.total_time_weeks,
                                           impact.time_impact_weeks[1])
                         ELSE before.total_time_weeks]
        final == Loop[Len(impacts)]
    IN [total_score |-> final.total_score,
        has_blockers |-> Len(final.blockers) > 0,
        blockers |-> final.blockers,
        additional_cost |-> final.total_cost,
        timeline_extension_weeks |-> final.total_time_weeks,
        impact_count |-> Len(impacts),
        positive_count |-> Len(SelectSeq(impacts, LAMBDA i : i.impact_score > 0)),
        negative_count |-> Len(SelectSeq(impacts, LAMBDA i : i.impact_score < 0))]

----------------------------------------------------------------------------
(* Calls of the scoring functions *)

MaxRedFlags == 3        \* entries of risk_analysis.red_flags
MaxAmberFlags == 1      \* entries of risk_analysis.amber_flags
MaxBlockers == 1        \* entries of title_split_viability.blockers
MaxScore == 100         \* largest score passed to get_recommendation_tier
MaxImpacts == 3         \* impacts in one list

\* a list of n flags
Flags(n) == [i \in 1..n |-> "flag"]

\* an AIAnalysisResult, reduced to the fields the scoring code reads
AnalysisResults ==
    {[tenure_analysis |->
          [likely_tenure |-> t, tenure_confidence |-> tc, single_title_likely |-> st],
      financial_analysis |->
          [estimated_gross_uplift_percent |-> u, price_assessment |-> pa],
      condition_analysis |-> c,
      risk_analysis |-> [red_flags |-> Flags(red), amber_flags |-> Flags(amber)],
      title_split_viability |-> [blockers |-> Flags(bl)],
      unit_analysis |-> [estimated_units |-> 3, unit_confidence |-> uc]] :
        t \in {"freehold", "unknown", "leasehold"}, tc \in {60, 90}, st \in BOOLEAN,
        u \in {None, Some(4), Some(12), Some(30)}, pa \in {"undervalued", "fair"},
        c \in {[refurb_needed |-> FALSE, refurb_scope |-> "none"],
                [refurb_needed |-> TRUE, refurb_scope |-> "none"],
                [refurb_needed |-> TRUE, refurb_scope |-> "light"],
                [refurb_needed |-> TRUE, refurb_scope |-> "heavy"]},
        red \in 0..MaxRedFlags, amber \in 0..MaxAmberFlags, bl \in 0..MaxBlockers,
        uc \in {60, 90}}

ScoringEpcLists ==
    {<< >>, <<EPCRecord(45, "")>>, <<EPCRecord(45, "G")>>,
     <<EPCRecord(73, "D"), EPCRecord(45, "C")>>}

OpportunityScoreCall ==
    \E analysis \in AnalysisResults, units \in {0, 2}, epcs \in ScoringEpcLists,
       k \in {0, 3, 5} :
        /\ fn = "calculate_opportunity_score"
        /\ args = [property |-> [estimated_units |-> units], analysis |-> analysis,
                   epcs |-> epcs, comparables |-> BulkFlats(k)]

RecommendationTierCall ==
    \E o \in 0..MaxScore, t \in 0..MaxScore, b \in BOOLEAN :
        /\ fn = "get_recommendation_tier"
        /\ args = [opportunity_score |-> o, title_split_score |-> t, has_blockers |-> b]

\* impacts as the rules of impact_rules.py build them
Impacts ==
    {Impact("enabler", 30, "Freehold tenure confirmed", None, None),
     Impact(BLOCKER, -100, "BLOCKER: Leasehold tenure", None, None),
     Impact(BLOCKER, -100, "BLOCKER: No mandatory HMO licence", Some(5000), None),
     Impact("major_neg", -30, "Possessory title - requires insurance", Some(1500), Some(4)),
     Impact("major_neg", -25, "Sui Generis - complex planning", Some(2000), Some(12)),
     Impact("major_neg", -50, "Structural concerns identified", Some(15000), Some(8)),
     Impact("neutral", 0, "Covenant - not affecting split", Some(0), Some(0))}

TotalImpactCall ==
    \E impacts \in SeqUpTo(Impacts, MaxImpacts) :
        /\ fn = "calculate_total_impact"
        /\ args = [impacts |-> impacts]

InitScore ==
    /\ pc = "call"
    /\ result = None
    /\ history = << >>
    /\ ServicesAtRest
    /\ \/ OpportunityScoreCall
       \/ RecommendationTierCall
       \/ TotalImpactCall

CalculateOpportunityScore ==
    /\ pc = "call"
    /\ fn = "calculate_opportunity_score"
    /\ result' = calculate_opportunity_score(args.property, args.analysis, args.epcs,
                                             args.comparables)
    /\ pc' = "done"
    /\ UNCHANGED <<fn, args, history, services>>

GetRecommendationTier ==
    /\ pc = "call"
    /\ fn = "get_recommendation_tier"
    /\ result' = get_recommendation_tier(args.opportunity_score, args.title_split_score,
                                         args.has_blockers)
    /\ pc' = "done"
    /\ UNCHANGED <<fn, args, history, services>>

CalculateTotalImpact ==
    /\ pc = "call"
    /\ fn = "calculate_total_impact"
    /\ result' = calculate_total_impact(args.impacts)
    /\ pc' = "done"
    /\ UNCHANGED <<fn, args, history, services>>

NextScore ==
    \/ CalculateOpportunityScore
    \/ GetRecommendationTier
    \/ CalculateTotalImpact

SpecScore == InitScore /\ [][NextScore]_vars

\* C14: in calculate_opportunity_score the tenure/title sub-score is within
\* 0..30, financial upside within 0..25, condition within 0..20, risk within
\* 0..15 (15 less 5 per red flag, 2 per amber flag and 3 per blocker, not
\* below 0), data confidence within 0..10, and the score returned is within
\* 0..100.
SubScoresWithinCaps ==
    Returned("calculate_opportunity_score") =>
        /\ TenureScore(args.analysis) \in 0..30
        /\ FinancialScore(args.analysis) \in 0..25
        /\ ConditionScore(args.analysis, args.epcs) \in 0..20
        /\ RiskScore(args.analysis) \in 0..15
        /\ RiskScore(args.analysis)
               = LET deducted == 15 - 5 * Len(args.analysis.risk_analysis.red_flags)
                                    - 2 * Len(args.analysis.risk_analysis.amber_flags)
                                    - 3 * Len(args.analysis.title_split_viability.blockers)
                 IN IF deducted < 0 THEN 0 ELSE deducted
        /\ ConfidenceScore(args.property, args.analysis, args.epcs, args.comparables)
               \in 0..10
        /\ result \in 0..100
        /\ result = TenureScore(args.analysis) + FinancialScore(args.analysis)
                      + ConditionScore(args.analysis, args.epcs) + RiskScore(args.analysis)
                      + ConfidenceScore(args.property, args.analysis, args.epcs,
                                        args.comparables)

\* a call whose financial additions pass 25 before the cap and whose risk
\* deductions pass 15 before the floor
CapAndFloorApplied ==
    /\ Returned("calculate_opportunity_score")
    /\ args.analysis.financial_analysis.estimated_gross_uplift_percent = Some(30)
    /\ args.analysis.financial_analysis.price_assessment = "undervalued"
    /\ FinancialScore(args.analysis) = 25
    /\ Len(args.analysis.risk_analysis.red_flags) * 5
           + Len(args.analysis.risk_analysis.amber_flags) * 2 > 15
    /\ RiskScore(args.analysis) = 0
    /\ result > 0

\* C15: get_recommendation_tier returns D when a blocker is present; without
\* one, with combined = 0.6 * opportunity score + 0.4 * title-split score, it
\* returns A if combined >= 75, B if 55 <= combined < 75, C if
\* 35 <= combined < 55 and D if combined < 35.
TierFollowsCombined ==
    Returned("get_recommendation_tier") =>
        LET o == args.opportunity_score
            t == args.title_split_score
        IN result = IF args.has_blockers THEN "D"
                    ELSE IF CombinedAtLeastExact(o, t, 75) THEN "A"
                    ELSE IF CombinedAtLeastExact(o, t, 55) THEN "B"
                    ELSE IF CombinedAtLeastExact(o, t, 35) THEN "C"
                    ELSE "D"

\* the impacts of a list that are blockers, in the order of the list
BlockersOf(impacts) == SelectSeq(impacts, LAMBDA i : i.impact_type = BLOCKER)

\* an Optional[int] read as a number, None being 0
OrZero(o) == IF o = None THEN 0 ELSE o[1]

\* C16: calculate_total_impact returns total_score = the sum of the impact
\* scores, additional_cost = the sum of the cost impacts, has_blockers = true
\* exactly when an impact has type BLOCKER, blockers = the headlines of those
\* impacts, and timeline_extension_weeks = the largest time estimate of an
\* impact, 0 when no impact has one.
TotalImpactAggregates ==
    Returned("calculate_total_impact") =>
        LET impacts == args.impacts
            N == 1..Len(impacts)
            Sum[S \in SUBSET N] ==
                IF S = {} THEN [score |-> 0, cost |-> 0]
                ELSE LET i == CHOOSE j \in S : TRUE
                     IN [score |-> Sum[S \ {i}].score + impacts[i].impact_score,
                         cost |-> Sum[S \ {i}].cost + OrZero(impacts[i].cost_impact)]
            estimates == {OrZero(impacts[i].time_impact_weeks) : i \in N} \cup {0}
        IN /\ result.total_score = Sum[N].score
           /\ result.additional_cost = Sum[N].cost
           /\ result.has_blockers = (\E i \in N : impacts[i].impact_type = BLOCKER)
           /\ result.blockers
                  = [k \in 1..Len(BlockersOf(impacts)) |-> BlockersOf(impacts)[k].headline]
           /\ result.timeline_extension_weeks \in estimates
           /\ \A w \in estimates : w <= result.timeline_extension_weeks

\* two delays of 4 and 12 weeks beside a blocker give an extension of 12
\* weeks, not 16
ConcurrentDelaysNotAdded ==
    /\ Returned("calculate_total_impact")
    /\ \E i, j \in 1..Len(args.impacts) :
           /\ args.impacts[i].time_impact_weeks = Some(4)
           /\ args.impacts[j].time_impact_weeks = Some(12)
    /\ result.timeline_extension_weeks = 12
    /\ result.has_blockers
    /\ result.additional_cost > 0

(***************************************************************************)
(* Confidence tier and value range of a unit                               *)
(***************************************************************************)

\* where the floor area of a valued unit comes from: the unit dict, the
\* EPC record, or nowhere
FloorAreaSource(unit, epc) ==
    IF Truthy(unit.sqft) THEN "unit"
    ELSE IF epc # None /\ epc[1].floor_area # 0 THEN "epc"
    ELSE "none"

\* the tier of a unit valued with n comparables by the step function that
\* counts an EPC-sourced floor area
TierByCountAndSource(n, source) ==
    IF n >= 10 THEN HIGH
    ELSE IF n >= 5 \/ (n >= 2 /\ source = "epc") THEN MEDIUM
    ELSE IF n >= 2 THEN LOW
    ELSE INDICATIVE

\* C21: the confidence of a valued unit is HIGH with at least 10 comparables
\* (the floor area never being a typical one), MEDIUM with at least 5
\* comparables or with at least 2 and a floor area taken from the EPC
\* record, LOW with at least 2 comparables, INDICATIVE otherwise.
UnitConfidenceTiers ==
    Returned("_value_unit") =>
        result.confidence
            = TierByCountAndSource(Min(10, Len(args.comparables)),
                                   FloorAreaSource(args.unit, args.epc))

\* the variance band by comparable count that widens to 20% below two
\* comparables, in hundredths
BandByCount(n) == IF n >= 5 THEN 10 ELSE IF n >= 2 THEN 15 ELSE 20

\* C22: the value range of a unit is its estimated value less and plus a
\* band of 10% with at least 5 comparables, 15% with 2 to 4 and 20% with
\* fewer than 2.
UnitRangeBands ==
    Returned("_value_unit") =>
        LET band == BandByCount(Min(10, Len(args.comparables)))
        IN /\ result.value_range_low = IntTimes(result.estimated_value, 100 - band)
           /\ result.value_range_high = IntTimes(result.estimated_value, 100 + band)

(***************************************************************************)
(* analysis/impact_rules.py: the rules applied to the manual inputs        *)
(***************************************************************************)

\* TENURE_IMPACTS.get(tenure_confirmed): None for a tenure without a rule
TENURE_IMPACTS(tenure_confirmed) ==
    CASE tenure_confirmed = "freehold" ->
           Some(Impact("enabler", 30, "Freehold tenure confirmed", None, None))
      [] tenure_confirmed = "leasehold" ->
           Some(Impact(BLOCKER, -100, "BLOCKER: Leasehold tenure", None, None))
      [] OTHER -> None

\* SINGLE_TITLE_IMPACTS.get(is_single_title) of a boolean
SINGLE_TITLE_IMPACTS(is_single_title) ==
    IF is_single_title
    THEN Some(Impact("enabler", 20, "Single title confirmed", None, None))
    ELSE Some(Impact(BLOCKER, -100, "BLOCKER: Already split", None, None))

\* assess_charge_impact of an ExistingCharge.  consent_fee_quoted or 1500
\* is 1500 for None and for 0.
assess_charge_impact(charge) ==
    IF charge.consent_likelihood = Some("refused")
    THEN Impact(BLOCKER, -100, "BLOCKER: " \o charge.lender_name \o " refused consent",
                None, None)
    ELSE LET restricted ==
                 -15 - (IF IsTrue(charge.is_all_monies_charge) THEN 10 ELSE 0)
                     - (IF IsTrue(charge.has_consent_restriction) THEN 10 ELSE 0)
             impact_type ==
                 IF charge.consent_likelihood = Some("likely") THEN "minor_neg"
                 ELSE "major_neg"
             base_score ==
                 IF charge.consent_likelihood = Some("likely") THEN -10
                 ELSE IF charge.consent_likelihood = Some("unlikely") THEN -30
                 ELSE restricted
         IN Impact(impact_type, base_score, "Existing charge: " \o charge.lender_name,
                   IF Truthy(charge.consent_fee_quoted) THEN charge.consent_fee_quoted
                   ELSE Some(1500),
                   Some(4))

\* assess_hmo_licensing_impact of an HMOLicensing: the list of impacts
assess_hmo_licensing_impact(hmo) ==
    (IF IsTrue(hmo.requires_mandatory_licence)
     THEN IF ~IsTrue(hmo.licence_held)
          THEN <<Impact(BLOCKER, -100, "BLOCKER: No mandatory HMO licence", Some(5000), None)>>
          ELSE <<Impact("neutral", 0, "Mandatory HMO licence in place", None, None)>>
     ELSE << >>)
    \o (IF IsFalse(hmo.fire_safety_compliant)
        THEN <<Impact("major_neg", -35, "Fire safety non-compliant", Some(5000), None)>>
        ELSE << >>)

\* the ExistingCharge records that carry the lender and the consent
\* likelihood of a charge of the manual inputs
ChargesLike(charge) ==
    {[lender_name |-> charge.lender_name,
      consent_likelihood |-> charge.consent_likelihood,
      is_all_monies_charge |-> m,
      has_consent_restriction |-> r,
      consent_fee_quoted |-> f] :
        m \in OptBool, r \in OptBool, f \in {None, Some(0), Some(750)}}

\* the HMOLicensing records that carry the two licence answers of the
\* manual inputs
HmoLicensingsLike(hmo) ==
    {[requires_mandatory_licence |-> hmo.requires_mandatory_licence,
      licence_held |-> hmo.licence_held,
      fire_safety_compliant |-> f] : f \in OptBool}

\* the impacts the tenure, single-title, lender-charge and HMO-licensing
\* rules yield for the facts of a ManualInputs record, as the handlers of
\* api/manual_inputs.py apply them
RuleImpacts(manual_inputs) ==
    LET verification == manual_inputs.title.verification
        charges == manual_inputs.title.charges
        hmo == manual_inputs.planning.hmo_licensing
        Got(impact) == IF impact = None THEN {} ELSE {impact[1]}
    IN (IF verification # None /\ verification[1].tenure_confirmed \notin {None, Some("")}
        THEN Got(TENURE_IMPACTS(verification[1].tenure_confirmed[1])) ELSE {})
       \cup (IF verification # None /\ verification[1].is_single_title # None
             THEN Got(SINGLE_TITLE_IMPACTS(verification[1].is_single_title[1])) ELSE {})
       \cup {assess_charge_impact(c) :
                c \in UNION {ChargesLike(charges[i]) : i \in 1..Len(charges)}}
       \cup (IF hmo = None THEN {}
             ELSE UNION {{assess_hmo_licensing_impact(h)[k] :
                             k \in 1..Len(assess_hmo_licensing_impact(h))} :
                         h \in HmoLicensingsLike(hmo[1])})

RED_FLAGS ==
    <<<<"flying freehold", "title_complexity">>,
      <<"share of freehold", "not_single_title">>,
      <<"commercial", "mixed_use_complexity">>,
      <<"retail", "mixed_use_complexity">>,
      <<"shop", "mixed_use_complexity">>,
      <<"ground rent", "leasehold_indicator">>,
      <<"service charge", "leasehold_indicator">>,
      <<"management company", "leasehold_indicator">>,
      <<"structural issues", "condition_risk">>,
      <<"subsidence", "condition_risk">>,
      <<"japanese knotweed", "condition_risk">>>>

SEVERE_FLAGS == {"subsidence", "japanese knotweed", "flying freehold"}

\* calculate_quick_score; tenure_confidence is held in hundredths
calculate_quick_score(property, rejections, warnings) ==
    IF rejections # << >> THEN 0
    ELSE LET tenure ==
                 IF property.tenure = "freehold"
                 THEN 15 + (IF property.tenure_confidence > 80 THEN 5 ELSE 0)
                 ELSE IF property.tenure = "unknown" THEN 5 ELSE 0
             units ==
                 IF Truthy(property.estimated_units)
                 THEN LET u == property.estimated_units[1] IN
                      IF 3 <= u /\ u <= 6 THEN 10
                      ELSE IF 2 <= u /\ u <= 8 THEN 5
                      ELSE IF u > 8 THEN 3 ELSE 0
                 ELSE 0
             price ==
                 IF Truthy(property.price_per_unit)
                 THEN LET p == property.price_per_unit[1] IN
                      IF p < 50000 THEN 10
                      ELSE IF p < 75000 THEN 5
                      ELSE IF p < 100000 THEN 2 ELSE 0
                 ELSE 0
             score == 60 + tenure + units + price - Len(warnings) * 2
         IN Max(10, Min(100, score))

\* initial_screen.  The text searched, (property.title or "") + " " +
\* description, lower-cased, is held as the set property.title of the
\* RED_FLAGS phrases it contains; no phrase contains another.
initial_screen(property) ==
    LET unit_warnings ==
            IF ~Truthy(property.estimated_units) \/ property.estimated_units[1] < 2
            THEN <<"unit_count_unclear">>
            ELSE IF property.estimated_units[1] > 10 THEN <<"large_block">> ELSE << >>
        tenure_rejections ==
            IF property.tenure = "leasehold" THEN <<"confirmed_leasehold">> ELSE << >>
        tenure_warnings ==
            IF property.tenure = "share_of_freehold" THEN <<"share_of_freehold">> ELSE << >>
        price_warnings ==
            IF Truthy(property.price_per_unit)
            THEN IF property.price_per_unit[1] > 200000 THEN <<"price_per_unit_high">>
                 ELSE IF property.price_per_unit[1] < 20000
                 THEN <<"price_per_unit_suspicious">> ELSE << >>
            ELSE << >>
        Flagged[n \in 0..Len(RED_FLAGS)] ==
            IF n = 0 THEN [rejections |-> << >>, warnings |-> << >>]
            ELSE LET flag_phrase == RED_FLAGS[n][1]
                     category == RED_FLAGS[n][2]
                     before == Flagged[n - 1]
                 IN IF flag_phrase \notin property.title THEN before
                    ELSE IF flag_phrase \in SEVERE_FLAGS
                    THEN [before EXCEPT !.rejections = Append(@, "red_flag_" \o category)]
                    ELSE [before EXCEPT !.warnings = Append(@, "warning_" \o category)]
        flagged == Flagged[Len(RED_FLAGS)]
        rejections == tenure_rejections \o flagged.rejections
        warnings == unit_warnings \o tenure_warnings \o price_warnings \o flagged.warnings
    IN [passes |-> Len(rejections) = 0,
        rejections |-> rejections,
        warnings |-> warnings,
        score |-> calculate_quick_score(property, rejections, warnings)]

MaxTitleFlags == 2

\* the sets of at most MaxTitleFlags red-flag phrases a listing title holds
TitleFlagSets ==
    {S \in SUBSET {RED_FLAGS[i][1] : i \in 1..Len(RED_FLAGS)} : Cardinality(S) <= MaxTitleFlags}

\* a listed property with the red-flag phrases of its title
Titled(property, phrases) ==
    [f \in DOMAIN property \cup {"title"} |->
        IF f = "title" THEN phrases ELSE property[f]]

\* the screening results initial_screen returns for the property of the
\* call with some title
ScreeningsOf(property) == {initial_screen(Titled(property, t)) : t \in TitleFlagSets}

\* C24: when initial_screen rejects a property (passes = False),
\* generate_initial_recommendation with that property and that screening
\* result returns DECLINE or LIKELY_DECLINE.
RejectedNeverEncouraged ==
    (Returned("generate_initial_recommendation")
        /\ \E s \in ScreeningsOf(args.property) :
               /\ ~s.passes
               /\ s.rejections = args.screening_result.rejections
               /\ s.warnings = args.screening_result.warnings)
        => result.level \in {DECLINE, LIKELY_DECLINE}

(***************************************************************************)
(* Break-even price against the cost-benefit model                         *)
(***************************************************************************)

\* amounts by which an asking price exceeds the break-even price
PriceSteps == {1, 2, 3, 4, 999, 250000}

\* net_benefit_per_unit of estimate_split_benefits at an asking price, with
\* the typical costs of the units valued
NetPerUnitAt(asking_price, num_units, individual_values) ==
    estimate_split_benefits(
        asking_price, num_units, individual_values,
        estimate_split_costs(num_units, individual_values, "typical")).net_benefit_per_unit

\* C25: for num_units > 0, when calculate_break_even_price returns a
\* positive price p, estimate_split_benefits at asking price p gives a net
\* benefit per unit of at least target_net_per_unit, and at any asking price
\* above p a net benefit per unit below the target.
BreakEvenIsThreshold ==
    (Returned("calculate_break_even_price") /\ args.num_units > 0 /\ result > 0) =>
        /\ NetPerUnitAt(result, args.num_units, args.individual_values)
               >= args.target_net_per_unit
        /\ \A d \in PriceSteps :
               NetPerUnitAt(result + d, args.num_units, args.individual_values)
                   < args.target_net_per_unit

\* four units break even at a positive price: the net benefit per unit is
\* the target of 2000 exactly there and 1999 one pound above
BreakEvenOnePoundAbove ==
    /\ Returned("calculate_break_even_price")
    /\ args.num_units = 4
    /\ args.target_net_per_unit = 2000
    /\ result > 0
    /\ NetPerUnitAt(result, 4, args.individual_values) = 2000
    /\ NetPerUnitAt(result + 1, 4, args.individual_values) = 1999

(***************************************************************************)
(* Rental-yield check in the block report                                  *)
(***************************************************************************)

\* the limitation entries of the report of a call that the report of the
\* same call without a monthly rent does not carry
LimitationsFromRent(call, report) ==
    LET plain == calculate_block_gdv(call.postcode, call.units, call.asking_price,
                                     call.comparables, call.epcs, call.split_costs, None)
    IN {report.limitations[i] : i \in 1..Len(report.limitations)}
           \ {plain.limitations[i] : i \in 1..Len(plain.limitations)}

\* C26: when calculate_block_gdv is given a monthly rent per unit and the
\* yield check of the average unit value returns valid = False, the report
\* has validation_results.passed = False or carries a limitation entry
\* about the yield failure.
YieldFailureSurfaced ==
    (Returned("calculate_block_gdv") /\ ~HasRaised(result)
        /\ "rental_yield_check" \in DOMAIN result.validation_results
        /\ ~result.validation_results.rental_yield_check.valid)
        => \/ ~result.validation_results.passed
           \/ LimitationsFromRent(args, result) # {}

(***************************************************************************)
(* Coverage evidence and the enriched level                                *)
(***************************************************************************)

\* the levels the enriched stage assigns, from least to most favourable
Favourability(level) ==
    CASE level = DECLINE -> 0
      [] level = LIKELY_DECLINE -> 1
      [] level = REVIEW_REQUIRED -> 2
      [] level = PROCEED_WITH_CAUTION -> 3
      [] level = PROCEED -> 4
      [] level = STRONG_PROCEED -> 5

\* C27: with the property and the uplift estimate held fixed, a call of
\* generate_enriched_recommendation with a larger comparable_count or
\* epc_count never returns a less favourable level than the call with the
\* smaller counts.
MoreCoverageNeverWeakens ==
    Returned("generate_enriched_recommendation") =>
        \A e \in 0..args.epc_count, c \in 0..args.comparable_count :
            Favourability(generate_enriched_recommendation(
                              args.property, e, c, args.estimated_uplift).level)
                <= Favourability(result.level)

(***************************************************************************)
(* Self-containment in the verified stage                                  *)
(***************************************************************************)

\* C28: generate_verified_recommendation lists the positive factor 'All
\* units verified as self-contained' only if the physical-verification
\* record has at least one unit whose is_self_contained is True and no unit
\* whose is_self_contained is False.
SelfContainedFactorNeedsEvidence ==
    (Returned("generate_verified_recommendation")
        /\ \E i \in 1..Len(result.positive_factors) :
               result.positive_factors[i] = "All units verified as self-contained")
        => /\ args.manual_inputs.physical # None
           /\ LET units == args.manual_inputs.physical[1].units
              IN /\ \E i \in 1..Len(units) : IsTrue(units[i].is_self_contained)
                 /\ \A i \in 1..Len(units) : ~IsFalse(units[i].is_self_contained)

(***************************************************************************)
(* api/scraper.py: trigger_scrape and run_scrape                           *)
(*                                                                         *)
(* The handlers are coroutines of one event loop: a coroutine runs alone   *)
(* from one await to the next, and at an await any other coroutine may     *)
(* run.  Each action below is the code between two awaits.  Here pc maps   *)
(* every trigger request and every background task to its position, args   *)
(* holds what a request read from _current_job_id and result the response  *)
(* it got.  uuid.uuid4() of request r is the job id r.                     *)
(***************************************************************************)

MaxTriggers == 3

Triggers == 1..MaxTriggers

\* a row of the ScrapeJob table
ScrapeJob(status, progress_percent) ==
    [status |-> status, progress_percent |-> progress_percent]

InitScraper ==
    /\ fn = "scraper"
    /\ pc = [trigger_scrape |-> [r \in Triggers |-> "request"],
             run_scrape |-> [r \in Triggers |-> "none"]]
    /\ args = [r \in Triggers |-> None]
    /\ result = [r \in Triggers |-> None]
    /\ history = << >>
    /\ ServicesAtRest

\* trigger_scrape up to its first await: with _current_job_id set the
\* handler awaits the select of that job, otherwise it builds the new job
\* and awaits its commit
TriggerScrape(r) ==
    /\ pc.trigger_scrape[r] = "request"
    /\ IF current_job_id # None
       THEN /\ args' = [args EXCEPT ![r] = current_job_id]
            /\ pc' = [pc EXCEPT !.trigger_scrape[r] = "select"]
       ELSE /\ pc' = [pc EXCEPT !.trigger_scrape[r] = "commit"]
            /\ UNCHANGED args
    /\ UNCHANGED <<fn, result, history, services>>

\* the select returns: a job still running is answered with 409, any other
\* lets the handler build the new job and await its commit
CheckExistingJob(r) ==
    /\ pc.trigger_scrape[r] = "select"
    /\ LET existing_job ==
               IF args[r][1] \in DOMAIN scrape_jobs THEN Some(scrape_jobs[args[r][1]])
               ELSE None
       IN IF existing_job # None /\ existing_job[1].status = "running"
          THEN /\ result' = [result EXCEPT ![r] = Some(409)]
               /\ pc' = [pc EXCEPT !.trigger_scrape[r] = "done"]
          ELSE /\ pc' = [pc EXCEPT !.trigger_scrape[r] = "commit"]
               /\ UNCHANGED result
    /\ UNCHANGED <<fn, args, history, services>>

\* session.commit() of the new ScrapeJob row, status "running"
CommitJob(r) ==
    /\ pc.trigger_scrape[r] = "commit"
    /\ scrape_jobs' = (r :> ScrapeJob("running", 0)) @@ scrape_jobs
    /\ pc' = [pc EXCEPT !.trigger_scrape[r] = "started"]
    /\ UNCHANGED <<fn, args, result, history, current_job_id, properties, session>>

\* after the commit: _current_job_id = job_id, the background task is
\* added and the response returned
StartTask(r) ==
    /\ pc.trigger_scrape[r] = "started"
    /\ current_job_id' = Some(r)
    /\ result' = [result EXCEPT ![r] = Some("started")]
    /\ pc' = [pc EXCEPT !.trigger_scrape[r] = "done", !.run_scrape[r] = "queued"]
    /\ UNCHANGED <<fn, args, history, scrape_jobs, properties, session>>

\* run_scrape: _update_job_progress(job_id, 10)
UpdateJobProgress(j) ==
    /\ pc.run_scrape[j] = "queued"
    /\ scrape_jobs' = [scrape_jobs EXCEPT ![j].progress_percent = 10]
    /\ pc' = [pc EXCEPT !.run_scrape[j] = "scraping"]
    /\ UNCHANGED <<fn, args, result, history, current_job_id, properties, session>>

\* scrape_all_sources() returns, or raises into the except branch
ScrapeAllSources(j) ==
    /\ pc.run_scrape[j] = "scraping"
    /\ \E outcome \in {"completed", "failed"} :
           pc' = [pc EXCEPT !.run_scrape[j] = outcome]
    /\ UNCHANGED <<fn, args, result, history, services>>

\* the commit of the job as completed, or as failed
CommitOutcome(j) ==
    /\ pc.run_scrape[j] \in {"completed", "failed"}
    /\ scrape_jobs' =
           [scrape_jobs EXCEPT
               ![j] = IF pc.run_scrape[j] = "completed" THEN ScrapeJob("completed", 100)
                      ELSE ScrapeJob("failed", @.progress_percent)]
    /\ pc' = [pc EXCEPT !.run_scrape[j] = "finally"]
    /\ UNCHANGED <<fn, args, result, history, current_job_id, properties, session>>

\* finally: _current_job_id = None
ClearCurrentJob(j) ==
    /\ pc.run_scrape[j] = "finally"
    /\ current_job_id' = None
    /\ pc' = [pc EXCEPT !.run_scrape[j] = "done"]
    /\ UNCHANGED <<fn, args, result, history, scrape_jobs, properties, session>>

TriggerScrapeStep == \E r \in Triggers : TriggerScrape(r)
CheckExistingJobStep == \E r \in Triggers : CheckExistingJob(r)
CommitJobStep == \E r \in Triggers : CommitJob(r)
StartTaskStep == \E r \in Triggers : StartTask(r)
UpdateJobProgressStep == \E j \in Triggers : UpdateJobProgress(j)
ScrapeAllSourcesStep == \E j \in Triggers : ScrapeAllSources(j)
CommitOutcomeStep == \E j \in Triggers : CommitOutcome(j)
ClearCurrentJobStep == \E j \in Triggers : ClearCurrentJob(j)

NextScraper ==
    \/ TriggerScrapeStep
    \/ CheckExistingJobStep
    \/ CommitJobStep
    \/ StartTaskStep
    \/ UpdateJobProgressStep
    \/ ScrapeAllSourcesStep
    \/ CommitOutcomeStep
    \/ ClearCurrentJobStep

SpecScraper == InitScraper /\ [][NextScraper]_vars

\* the jobs of the ScrapeJob table in status "running"
RunningJobs == {j \in DOMAIN scrape_jobs : scrape_jobs[j].status = "running"}

\* C29: at most one full scrape job is in status "running" at any time,
\* under every interleaving of trigger requests and run_scrape tasks.
AtMostOneRunningJob == Cardinality(RunningJobs) <= 1

(***************************************************************************)
(* tasks/enrichment.py: enrich_pending_properties and enrich_property      *)
(*                                                                         *)
(* One batch runs at a time.  pc is the position of the batch, args its    *)
(* batch size, the properties it selected and the position of its loop,    *)
(* result its results dict, and history the results of the batches that    *)
(* returned.  A property id is the rank of its first_seen: the larger id   *)
(* was seen later.                                                         *)
(***************************************************************************)

MaxProperties == 3
MaxBatchSize == 2
MaxBatches == 3

PropertyIds == 1..MaxProperties

\* the first n entries of the ids in S, latest first_seen first
RECURSIVE LatestFirst(_, _)
LatestFirst(S, n) ==
    IF S = {} \/ n = 0 THEN << >>
    ELSE LET latest == CHOOSE p \in S : \A q \in S : q <= p
         IN <<latest>> \o LatestFirst(S \ {latest}, n - 1)

\* the Property table as ingest_property leaves it: every listing is
\* rejected or waits for enrichment
InitEnrichment ==
    /\ fn = "enrichment"
    /\ pc = "idle"
    /\ args = None
    /\ result = None
    /\ history = << >>
    /\ current_job_id = None
    /\ scrape_jobs = << >>
    /\ properties \in [PropertyIds -> {"pending_enrichment", "rejected"}]
    /\ session = << >>

\* enrich_pending_properties up to its loop: the session loads the latest
\* batch_size properties in status pending_enrichment
EnrichPendingProperties ==
    /\ pc = "idle"
    /\ Len(history) < MaxBatches
    /\ \E batch_size \in 1..MaxBatchSize :
           LET pending == {p \in PropertyIds : properties[p] = "pending_enrichment"}
               selected == LatestFirst(pending, batch_size)
           IN /\ args' = [batch_size |-> batch_size, properties |-> selected, position |-> 1]
              /\ session' = [p \in {selected[i] : i \in 1..Len(selected)} |-> properties[p]]
              /\ pc' = IF selected = << >> THEN "commit" ELSE "loop"
    /\ result' = [processed |-> 0, succeeded |-> 0, failed |-> 0]
    /\ UNCHANGED <<fn, history, current_job_id, scrape_jobs, properties>>

\* enrich_property: property.status = "analysing", then the flush
MarkAnalysing ==
    /\ pc = "loop"
    /\ session' = [session EXCEPT ![args.properties[args.position]] = "analysing"]
    /\ pc' = "enrich_property"
    /\ UNCHANGED <<fn, args, result, history, current_job_id, scrape_jobs, properties>>

\* the loop moves to the next selected property, or leaves for the commit
NextProperty ==
    /\ args' = [args EXCEPT !.position = @ + 1]
    /\ pc' = IF args.position < Len(args.properties) THEN "loop" ELSE "commit"

\* the rest of enrich_property runs through: property.status = "analysed"
EnrichProperty ==
    /\ pc = "enrich_property"
    /\ session' = [session EXCEPT ![args.properties[args.position]] = "analysed"]
    /\ result' = [result EXCEPT !.succeeded = @ + 1, !.processed = @ + 1]
    /\ NextProperty
    /\ UNCHANGED <<fn, history, current_job_id, scrape_jobs, properties>>

\* a step of enrich_property raises: the except branch of the loop counts
\* the failure and goes on
EnrichmentFailed ==
    /\ pc = "enrich_property"
    /\ result' = [result EXCEPT !.failed = @ + 1, !.processed = @ + 1]
    /\ NextProperty
    /\ UNCHANGED <<fn, history, services>>

\* session.commit() after the loop, and the return of the results
CommitBatch ==
    /\ pc = "commit"
    /\ properties' = [p \in PropertyIds |->
                         IF p \in DOMAIN session THEN session[p] ELSE properties[p]]
    /\ session' = << >>
    /\ history' = Append(history, result)
    /\ pc' = "idle"
    /\ UNCHANGED <<fn, args, result, current_job_id, scrape_jobs>>

NextEnrichment ==
    \/ EnrichPendingProperties
    \/ MarkAnalysing
    \/ EnrichProperty
    \/ EnrichmentFailed
    \/ CommitBatch

SpecEnrichment == InitEnrichment /\ [][NextEnrichment]_vars

\* C30: every property selected by enrich_pending_properties finishes that
\* batch in status analysed or back in pending_enrichment, never left in
\* analysing.
SelectedNeverLeftAnalysing ==
    (pc = "idle" /\ history # << >>) =>
        \A i \in 1..Len(args.properties) :
            properties[args.properties[i]] \in {"analysed", "pending_enrichment"}

====
